---- MODULE Spec2Model ----
(***************************************************************************)
(* State-machine model of graphton's MCP tool-loading middleware           *)
(* (McpToolsLoader in src/graphton/core/middleware.py): construction,      *)
(* abefore_agent, aafter_agent and get_tool of one middleware instance,    *)
(* driven by a harness that may call the hooks in any order and by a       *)
(* remote loader (load_mcp_tools) whose outcome the environment chooses.   *)
(* AgentSpec adds create_deep_agent's assembly and the tool wrappers of    *)
(* tool_wrappers.py; LoaderSpec follows one call of load_mcp_tools         *)
(* (mcp_manager.py) from its arguments and the servers' answer.            *)
(*                                                                         *)
(* A configuration string is a sequence of tokens: a literal chunk or a    *)
(* {{VAR}} placeholder.  Variable names are integers in their sort order.  *)
(***************************************************************************)
EXTENDS Integers, Sequences, FiniteSets, Bags, TLC

\* ---------------------------------------------------------------- bounds
MaxTools == 2     \* longest tool list the remote loader returns
MaxCalls == 2     \* abefore_agent coroutines that may be in flight at once
MaxLoads == 2     \* loader invocations followed in one behaviour
MaxStrLen == 5    \* pieces of the longest configuration string given to the template engine
MaxNameLen == 2   \* characters of the longest tool name given to the filter's validator

\* ------------------------------------------------------ configuration data
Lit(s) == [k |-> "lit", n |-> 0, s |-> s]
Var(v) == [k |-> "var", n |-> v, s |-> ""]

\* the names a configurable mapping may carry: the template variables of the
\* configurations below (for DynOneServers and MixedServers, 2 is an unused extra)
Keys == {1, 2}
CredValues == {"alice", "bob"}
ToolNames == {"t1", "t2"}
QueryNames == ToolNames \cup {"zz"}

EmptyMap == [x \in {} |-> 0]

StaticServers == "s1" :> [url |-> <<Lit("https://a/")>>, auth |-> <<Lit("key")>>]
DynOneServers == "s1" :> [url |-> <<Lit("https://a/")>>, auth |-> <<Lit("Bearer "), Var(1)>>]
DynTwoServers == "s1" :> [url |-> <<Var(2), Lit("/mcp")>>, auth |-> <<Lit("Bearer "), Var(1)>>]
MixedServers ==
    ("s1" :> [url |-> <<Lit("https://a/")>>, auth |-> <<Lit("key")>>]) @@
    ("s2" :> [url |-> <<Lit("https://b/")>>, auth |-> <<Var(1), Lit("-suffix")>>])

ServerConfigs == {StaticServers, DynOneServers, DynTwoServers, MixedServers}

FilterFor(srv) == [x \in DOMAIN srv |-> IF x = "s1" THEN <<"t1", "t2">> ELSE <<"t2">>]

\* ------------------------------------------------------- template engine
StrVars(s) == {s[i].n : i \in {j \in DOMAIN s : s[j].k = "var"}}

extract_template_vars(srv) ==
    UNION {StrVars(srv[x].url) \cup StrVars(srv[x].auth) : x \in DOMAIN srv}

SubStr(s, values) ==
    [i \in DOMAIN s |-> IF s[i].k = "var" THEN Lit(values[s[i].n]) ELSE s[i]]

substitute_templates(srv, values) ==
    [x \in DOMAIN srv |->
        [url |-> SubStr(srv[x].url, values), auth |-> SubStr(srv[x].auth, values)]]

\* ------------------------------------------------------------- helpers
Range(f) == {f[x] : x \in DOMAIN f}

Min(S) == CHOOSE x \in S : \A y \in S : x <= y

RECURSIVE sorted(_)
sorted(S) == IF S = {} THEN <<>> ELSE <<Min(S)>> \o sorted(S \ {Min(S)})

\* {tool.name: tool for tool in tools}: a later entry replaces an earlier one
LastIndex(tools, n) ==
    CHOOSE i \in DOMAIN tools :
        /\ tools[i].name = n
        /\ \A j \in DOMAIN tools : tools[j].name = n => j <= i

\* (mutant) only the first tool of the list reaches the cache
CacheByNameFirst(tools) ==
    [n \in {tools[1].name} |-> tools[1]]

CacheByName(tools) ==
    [n \in {tools[i].name : i \in DOMAIN tools} |-> tools[LastIndex(tools, n)]]

\* ---------------------------------------------------- invocation contexts
\* one caller supplies its own value for each key it sends
Configurables == UNION {[K -> {u}] : K \in SUBSET Keys, u \in CredValues}

Runtimes ==
    {[form |-> "none", has |-> FALSE, conf |-> EmptyMap],
     [form |-> "other", has |-> FALSE, conf |-> EmptyMap]}
    \cup {[form |-> f, has |-> FALSE, conf |-> EmptyMap] : f \in {"obj", "dict"}}
    \cup {[form |-> f, has |-> TRUE, conf |-> c] : f \in {"obj", "dict"}, c \in Configurables}

\* the values an invocation context supplies (none when it carries no mapping)
Supplied(r) == IF r.form \in {"obj", "dict"} /\ r.has THEN DOMAIN r.conf ELSE {}

\* ----------------------------------------------------------- loader
Handle(n, conn) == [name |-> n, conn |-> conn]
NoHandle == [name |-> "", conn |-> EmptyMap]

\* load_mcp_tools is looked up by name when the hook calls it; what it gives
\* back is the environment's choice: a list of tools bound to the connection
\* parameters it was handed (possibly empty), a ValueError (no tool matched the
\* filter) or any other exception (transport failure, bad call)
ToolLists(conn) ==
    UNION {[1..len -> {Handle(n, conn) : n \in ToolNames}] : len \in 0..MaxTools}

LoaderOutcomes(conn) ==
    {[kind |-> "tools", tools |-> t] : t \in ToolLists(conn)}
    \cup {[kind |-> "ValueError", tools |-> <<>>], [kind |-> "Exception", tools |-> <<>>]}

\* ------------------------------------------- load_mcp_tools taken by itself
\* the tokens a caller may pass: none, blank, or a real one
UserTokens == {"", " ", "tok"}
BlankTokens == {"", " "}

\* what "await mcp_client.get_tools()" meets: the servers' catalog of tool
\* names, a failure of the transport raised as an exception that is not a
\* ValueError ("error": a refused connection) or as one that is
\* ("value_error": a reply that does not decode), or servers that never answer
Remotes ==
    {[kind |-> "catalog", names |-> c] :
        c \in UNION {[1..len -> QueryNames] : len \in 0..MaxTools}}
    \cup {[kind |-> k, names |-> <<>>] : k \in {"error", "value_error", "silent"}}

\* the tool lists a filter may ask of one server
FilterLists == {<<"t1">>, <<"zz">>, <<"t1", "t2">>}

\* the name of the header a server's descriptor carries: an API key for the
\* first server, an Authorization header for the second
HeaderName(x) == IF x = "s1" THEN "X-API-Key" ELSE "Authorization"

\* "server_cfg.headers"
HeadersOf(srv, x) == HeaderName(x) :> srv[x].auth

\* the client configuration of lines 67-86: per server the url and the headers,
\* an Authorization header made of the user token, updated with the server's
\* own headers (which replace the former when they carry the same name)
client_config(srv, user_token) ==
    [x \in DOMAIN srv |->
        [url |-> srv[x].url,
         headers |-> HeadersOf(srv, x)
                     @@ ("Authorization" :> <<Lit("Bearer "), Lit(user_token)>>)]]

\* "requested_tools": the union of the tool names of every server of the filter
requested_tools(filter) == UNION {Range(filter[x]) : x \in DOMAIN filter}

\* [tool for tool in all_tools if tool.name in requested_tools]
RECURSIVE filtered_tools(_, _)
filtered_tools(all_tools, requested) ==
    IF all_tools = <<>> THEN <<>>
    ELSE (IF Head(all_tools).name \in requested THEN <<Head(all_tools)>> ELSE <<>>)
             \o filtered_tools(Tail(all_tools), requested)

LoaderRet(kind, msg, tools, available, requested) ==
    [kind |-> kind, msg |-> msg, tools |-> tools, available |-> available,
     requested |-> requested]

\* (mutant) with nothing matching the loader returns the empty list
load_mcp_toolsReturnsEmpty(srv, filter, user_token, remote) ==
    IF user_token \in BlankTokens
    THEN LoaderRet("ValueError", "user_token is required", <<>>, <<>>, {})
    ELSE IF remote.kind = "error"
    THEN LoaderRet("RuntimeError", "MCP tool loading failed", <<>>, <<>>, {})
    ELSE LoaderRet("tools", "",
                   filtered_tools([i \in DOMAIN remote.names |->
                                      Handle(remote.names[i], client_config(srv, user_token))],
                                  requested_tools(filter)),
                   <<>>, {})

\* a loader that takes a requested name the catalog lacks for a failure
load_mcp_toolsAllOrNothing(srv, filter, user_token, remote) ==
    LET all_tools == [i \in DOMAIN remote.names |->
                         Handle(remote.names[i], client_config(srv, user_token))]
        filtered == filtered_tools(all_tools, requested_tools(filter))
    IN  IF user_token \in BlankTokens
        THEN LoaderRet("ValueError", "user_token is required", <<>>, <<>>, {})
        ELSE IF remote.kind = "error"
        THEN LoaderRet("RuntimeError", "MCP tool loading failed", <<>>, <<>>, {})
        ELSE IF remote.kind = "value_error"
        THEN LoaderRet("ValueError", "transport", <<>>, <<>>, {})
        ELSE IF \/ filtered = <<>>
                \/ requested_tools(filter) \ Range(remote.names) # {}
        THEN LoaderRet("ValueError", "No tools found matching filter", <<>>,
                       remote.names, requested_tools(filter))
        ELSE LoaderRet("tools", "", filtered, <<>>, {})

\* load_mcp_tools(servers, tool_filter, user_token), remote being the answer
\* of "await mcp_client.get_tools()"; the requested names of the error are the
\* sorted list of a set, given here as the set
load_mcp_tools(srv, filter, user_token, remote) ==
    LET all_tools == [i \in DOMAIN remote.names |->
                         Handle(remote.names[i], client_config(srv, user_token))]
        filtered == filtered_tools(all_tools, requested_tools(filter))
    IN  IF user_token \in BlankTokens
        THEN LoaderRet("ValueError", "user_token is required", <<>>, <<>>, {})
        ELSE IF remote.kind = "error"
        THEN LoaderRet("RuntimeError", "MCP tool loading failed", <<>>, <<>>, {})
        ELSE IF remote.kind = "value_error"
        THEN LoaderRet("ValueError", "transport", <<>>, <<>>, {})
        ELSE IF filtered = <<>>
        THEN LoaderRet("ValueError", "No tools found matching filter", <<>>,
                       remote.names, requested_tools(filter))
        ELSE LoaderRet("tools", "", filtered, <<>>, {})

NoLoaderRet == LoaderRet("none", "", <<>>, <<>>, {})

\* a call of the loader: its arguments, the servers' answer and its outcome
LoaderCall(pc, srv, filter, user_token, remote, result) ==
    [pc |-> pc, servers |-> srv, tool_filter |-> filter, user_token |-> user_token,
     remote |-> remote, result |-> result]

\* the resolved descriptors the loader is called with
LoaderServers == {StaticServers, substitute_templates(MixedServers, 1 :> "alice")}

LoaderCalls ==
    UNION {{LoaderCall("called", srv, filter, tok, remote, NoLoaderRet) :
               filter \in [DOMAIN srv -> FilterLists], tok \in UserTokens, remote \in Remotes} :
           srv \in LoaderServers}

\* no call of the loader taken by itself is under way
LoaderIdle ==
    LoaderCall("idle", EmptyMap, EmptyMap, "", [kind |-> "error", names |-> <<>>], NoLoaderRet)

\* ------------------------------------- the template engine taken by itself
\* configuration strings as the engine reads them: "{{", "}}", an identifier
\* (the name of a variable when it stands between the two) and other text;
\* the whitespace the pattern allows around the identifier is left out
Open == [k |-> "open", n |-> 0, s |-> "{{"]
Close == [k |-> "close", n |-> 0, s |-> "}}"]
Ident(v) == [k |-> "id", n |-> v, s |-> ""]

\* a nested configuration: a string, another scalar, a list or a dict
Str(s) == [t |-> "str", s |-> s, keys |-> <<>>, kids |-> <<>>]
Scalar(c) == [t |-> "scalar", s |-> <<Lit(c)>>, keys |-> <<>>, kids |-> <<>>]
List(kids) == [t |-> "list", s |-> <<>>, keys |-> <<>>, kids |-> kids]
Dict(keys, kids) == [t |-> "dict", s |-> <<>>, keys |-> keys, kids |-> kids]

\* the pattern "{{" identifier "}}" stands at position i of the string
PlaceholderAt(s, i) ==
    /\ i + 2 <= Len(s)
    /\ s[i].k = "open"
    /\ s[i + 1].k = "id"
    /\ s[i + 2].k = "close"

\* the variables of the pattern's occurrences in one string
TextVars(s) == {s[i + 1].n : i \in {j \in DOMAIN s : PlaceholderAt(s, j)}}

\* extractVariables(node): the walk over dicts, lists and string scalars
RECURSIVE extractVariables(_)
extractVariables(node) ==
    IF node.t = "str" THEN TextVars(node.s)
    ELSE UNION {extractVariables(node.kids[i]) : i \in DOMAIN node.kids}

\* hasTemplates(node)
hasTemplates(node) == extractVariables(node) # {}

\* one pass over the string from position i on: each occurrence of the pattern
\* gives way to the value of its variable, everything else is copied
RECURSIVE SubText(_, _, _)
SubText(s, i, values) ==
    IF i > Len(s) THEN <<>>
    ELSE IF PlaceholderAt(s, i)
    THEN values[s[i + 1].n] \o SubText(s, i + 3, values)
    ELSE <<s[i]>> \o SubText(s, i + 1, values)

\* (mutant) the walk goes through dicts only: a list is copied as it is
RECURSIVE SubNodeSkipsLists(_, _)
SubNodeSkipsLists(node, values) ==
    IF node.t = "str" THEN Str(SubText(node.s, 1, values))
    ELSE IF node.t \in {"scalar", "list"} THEN node
    ELSE [node EXCEPT !.kids = [i \in DOMAIN node.kids |->
                                   SubNodeSkipsLists(node.kids[i], values)]]

\* (mutant) every scalar of the copy is made a string
RECURSIVE SubNodeStringifies(_, _)
SubNodeStringifies(node, values) ==
    IF node.t = "str" THEN Str(SubText(node.s, 1, values))
    ELSE IF node.t = "scalar" THEN Str(node.s)
    ELSE [node EXCEPT !.kids = [i \in DOMAIN node.kids |->
                                   SubNodeStringifies(node.kids[i], values)]]

\* the copy of a node with its strings substituted
RECURSIVE SubNode(_, _)
SubNode(node, values) ==
    IF node.t = "str" THEN Str(SubText(node.s, 1, values))
    ELSE IF node.t = "scalar" THEN node
    ELSE [node EXCEPT !.kids = [i \in DOMAIN node.kids |-> SubNode(node.kids[i], values)]]

NoNode == Scalar("")

\* what substitute gives: the substituted copy, or the failure
\* "Missing required template variables" with its sorted names
SubstituteRet(ok, node, missing) == [ok |-> ok, node |-> node, missing |-> missing]

\* (mutant) the failure names the first missing variable only
substituteFailsFast(node, values) ==
    LET missing == extractVariables(node) \ DOMAIN values
    IN  IF missing # {}
        THEN SubstituteRet(FALSE, NoNode, <<Min(missing)>>)
        ELSE SubstituteRet(TRUE, SubNode(node, values), <<>>)

\* substitute(node, values)
substitute(node, values) ==
    LET missing == extractVariables(node) \ DOMAIN values
    IN  IF missing # {}
        THEN SubstituteRet(FALSE, NoNode, sorted(missing))
        ELSE SubstituteRet(TRUE, SubNode(node, values), <<>>)

\* the caller's structure once substitute has returned: the engine works on a
\* copy and leaves it as it was
InputAfter(node, values) == node

\* the strings of the configurations tried: up to len pieces, no two
\* identifiers side by side (they would read as one identifier)
Pieces == {Open, Close, Ident(1), Lit("/")}

Texts(len) ==
    {s \in UNION {[1..l -> Pieces] : l \in 0..len} :
        \A i \in 1..(Len(s) - 1) : ~(s[i].k = "id" /\ s[i + 1].k = "id")}

\* flat configurations of one string, and nested ones with a number, a list
\* and a dict of headers
Configs(len) ==
    {Dict(<<"url">>, <<Str(s)>>) : s \in Texts(len)}
    \cup {Dict(<<"port", "urls", "headers">>,
               <<Scalar("8080"), List(<<Str(s), Scalar("None")>>),
                 Dict(<<"Authorization">>, <<Str(h)>>)>>) :
            s \in Texts(len - 2),
            h \in {<<Lit("Bearer ")>>, <<Lit("Bearer "), Open, Ident(2), Close>>}}

\* the values a caller may supply for a variable: plain text, text with a
\* brace in it, text that is itself a placeholder
ValueTexts == {<<Lit("v")>>, <<Open>>, <<Open, Ident(2), Close>>}

ValueMaps == UNION {[K -> ValueTexts] : K \in SUBSET Keys}

\* a call of the engine: the structure as the caller built it, the same
\* object as it is now, the values, and the outcome
UnitCall(fn, pc, given, node, values, result) ==
    [fn |-> fn, pc |-> pc, given |-> given, node |-> node, values |-> values,
     result |-> result]

\* no call of a pure function is under way
UnitIdle == [fn |-> "none", pc |-> "idle"]

\* ------------------------------- McpToolsConfig.validate_tools_structure
\* tool names as strings of characters: a letter, a digit, the underscore,
\* the hyphen and one character that is none of them
Chars == {"a", "1", "_", "-", "@"}
Alnum == {"a", "1"}

\* the names tried, up to len characters, and the tool lists of up to two
\* names
NameTexts(len) == UNION {[1..l -> Chars] : l \in 0..len}

NameLists(len) ==
    {<<>>} \cup {<<n>> : n \in NameTexts(len)} \cup {<<n, m>> : n, m \in NameTexts(len)}

\* the filters tried: no server, one server with any list, two servers with
\* lists of at most one name
Filters(len) ==
    {EmptyMap}
    \cup {"s1" :> l : l \in NameLists(len)}
    \cup {("s1" :> <<n>>) @@ ("s2" :> l) :
            n \in NameTexts(len), l \in {<<>>} \cup {<<m>> : m \in NameTexts(len)}}

\* str.replace(c, "")
replace(name, c) == SelectSeq(name, LAMBDA x : x # c)

\* str.isalnum(): every character is a letter or a digit and there is one
isalnum(name) == name # <<>> /\ \A i \in DOMAIN name : name[i] \in Alnum

\* the checks of one tool name, lines 160-168
NameError(name) ==
    IF name = <<>> THEN "Empty tool name"
    ELSE IF ~isalnum(replace(replace(name, "_"), "-")) THEN "Invalid tool name"
    ELSE ""

\* the checks of one server's list, lines 146-175: the list, its names in
\* order, then duplicates
ListError(tool_list) ==
    IF tool_list = <<>> THEN "empty tool list"
    ELSE IF \E i \in DOMAIN tool_list : NameError(tool_list[i]) # ""
    THEN NameError(tool_list[Min({i \in DOMAIN tool_list : NameError(tool_list[i]) # ""})])
    ELSE IF Len(tool_list) # Cardinality(Range(tool_list)) THEN "Duplicate tool names"
    ELSE ""

ValidateRet(ok, value, msg) == [ok |-> ok, value |-> value, msg |-> msg]

\* validate_tools_structure(v): the error of the first server at fault, the
\* servers taken in the order of the dict, or v itself
validate_tools_structure(v) ==
    IF DOMAIN v = {} THEN ValidateRet(FALSE, EmptyMap, "At least one MCP server with tools is required")
    ELSE IF \E x \in DOMAIN v : ListError(v[x]) # ""
    THEN ValidateRet(FALSE, EmptyMap,
                     ListError(v[CHOOSE x \in DOMAIN v :
                                   /\ ListError(v[x]) # ""
                                   /\ \A y \in DOMAIN v :
                                        ListError(v[y]) # "" => (x = "s1" \/ y = "s2")]))
    ELSE ValidateRet(TRUE, v, "")

\* ------------------------------------------------------- McpServerConfig
\* a raw server dictionary: the transport and the url it may or may not carry
\* and the names of its headers; a url is its scheme and its host, either of
\* which may be missing from the text
Url(scheme, host) == [scheme |-> scheme, host |-> host]
NoUrl == Url("", "")

RawServer(has_transport, transport, has_url, url, headers) ==
    [has_transport |-> has_transport, transport |-> transport,
     has_url |-> has_url, url |-> url, headers |-> headers]

RawServers ==
    {RawServer(ht, IF ht THEN t ELSE "", hu, IF hu THEN u ELSE NoUrl, h) :
        ht \in BOOLEAN, t \in {"streamable_http", "stdio"},
        hu \in BOOLEAN,
        u \in {Url(s, host) : s \in {"https", "http", "ftp", ""},
                              host \in {"mcp.example.com", "localhost", "127.0.0.1", ""}},
        h \in {{}, {"X-API-Key"}, {"Authorization"}}}

\* the field default of line 34
DefaultTransport == "streamable_http"

\* (mutant) any transport is taken
validate_transportAny(v) == ""

\* validate_transport: the error it raises, if any
validate_transport(v) ==
    IF v \notin {"streamable_http"} THEN "Unsupported transport" ELSE ""

\* the url field is a pydantic HttpUrl: an http or https scheme and a host
HttpUrl(u) == u.scheme \in {"http", "https"} /\ u.host # ""

\* validate_url_scheme: the warning it gives, if any
validate_url_scheme(u) ==
    IF u.scheme = "http" /\ u.host \notin {"localhost", "127.0.0.1"}
    THEN {"insecure HTTP"} ELSE {}

\* validate_headers: the warning it gives, if any
validate_headers(h) ==
    IF "Authorization" \in h THEN {"Authorization overwritten"} ELSE {}

ServerRet(ok, transport, url, errors, warnings) ==
    [ok |-> ok, transport |-> transport, url |-> url, errors |-> errors,
     warnings |-> warnings]

\* parse_mcp_server_config(config_dict) = McpServerConfig(**config_dict): every
\* field is validated, the errors of all fields make one ValidationError
parse_mcp_server_config(raw) ==
    LET transport == IF raw.has_transport THEN raw.transport ELSE DefaultTransport
        transportErrors ==
            IF raw.has_transport /\ validate_transport(raw.transport) # ""
            THEN {validate_transport(raw.transport)} ELSE {}
        urlErrors ==
            IF ~raw.has_url THEN {"url: field required"}
            ELSE IF ~HttpUrl(raw.url) THEN {"url: invalid"} ELSE {}
        warnings ==
            (IF raw.has_url /\ HttpUrl(raw.url) THEN validate_url_scheme(raw.url) ELSE {})
            \cup validate_headers(raw.headers)
        errors == transportErrors \cup urlErrors
    IN  IF errors # {}
        THEN ServerRet(FALSE, "", NoUrl, errors, warnings)
        ELSE ServerRet(TRUE, transport, raw.url, {}, warnings)

\* ------------------------------------------------------------- state
VARIABLES
    servers,        \* self.servers
    tool_filter,    \* self.tool_filter
    template_vars,  \* self.template_vars
    is_dynamic,     \* self.is_dynamic
    tools_loaded,   \* self._tools_loaded
    tools_cache,    \* self._tools_cache
    phase,          \* "new" before __init__, "live" once it returned, "raised" if it raised
    inLoop,         \* an event loop is running on the constructing thread
    calls,          \* the abefore_agent coroutines suspended in the loader: a bag of their arguments
    loadCalls,      \* how many times the remote loader has been invoked
    loadArg,        \* the server descriptors handed to the latest loader invocation
    lastTools,      \* the tools that the load that filled the cache returned
    invConn,        \* what the latest abefore_agent call's own values resolve to
    overlapped,     \* some hook or lookup ran while an abefore_agent was suspended
    ret,            \* outcome of the operation that completed last
    wrappers,       \* the tool wrappers made for the instance, by tool name
    loader,         \* one call of load_mcp_tools taken by itself: its arguments, the servers' answer, its outcome
    unit            \* one call of a pure function of the library taken by itself: its arguments and its outcome

vars == <<servers, tool_filter, template_vars, is_dynamic, tools_loaded, tools_cache,
          phase, inLoop, calls, loadCalls, loadArg, lastTools, invConn, overlapped, ret,
          wrappers, loader, unit>>

\* what lies outside the middleware instance
outside == <<wrappers, loader, unit>>

config == <<servers, tool_filter, template_vars, is_dynamic, phase, inLoop>>

Ret(op, kind, msg, names, tool, had) ==
    [op |-> op, kind |-> kind, msg |-> msg, names |-> names, tool |-> tool, had |-> had,
     steps |-> <<>>, args |-> ""]

Awaiting == BagToSet(calls)

Init ==
    /\ servers \in ServerConfigs
    /\ tool_filter = FilterFor(servers)
    /\ template_vars = {}
    /\ is_dynamic = FALSE
    /\ tools_loaded = FALSE
    /\ tools_cache = EmptyMap
    /\ phase = "new"
    /\ inLoop \in BOOLEAN
    /\ calls = EmptyBag
    /\ loadCalls = 0
    /\ loadArg = EmptyMap
    /\ lastTools = {}
    /\ invConn = EmptyMap
    /\ overlapped = FALSE
    /\ ret = Ret("none", "ok", "", <<>>, NoHandle, {})
    /\ wrappers = EmptyMap
    /\ loader = LoaderIdle
    /\ unit = UnitIdle


\* ------------------------------------------------------------ construction
\* McpToolsLoader.__init__ with _load_static_tools.  A dynamic configuration
\* loads nothing.  A static one blocks on the loader unless a loop is already
\* running on the thread: then run_until_complete on the fresh loop raises
\* before the loader coroutine runs, and the constructor raises with it.
\* (mutant) the mode is read off the first server only
ModeOfFirstServer(tv) == StrVars(servers["s1"].url) \cup StrVars(servers["s1"].auth) # {}

\* "self.is_dynamic = bool(self.template_vars)"
ModeOf(tv) == tv # {}

\* ----------------------------------------- create_deep_agent taken by itself
\* the arguments of a call: the servers and the tool filter (the empty map
\* stands for None and for {}), the caller's tools and middleware, whether an
\* event loop runs on the calling thread and what the loader would answer
StaticTwoServers ==
    ("s1" :> [url |-> <<Lit("https://a/")>>, auth |-> <<Lit("key")>>]) @@
    ("s2" :> [url |-> <<Lit("https://b/")>>, auth |-> <<Lit("key2")>>])

ServerArgs == {EmptyMap, StaticServers, DynOneServers, StaticTwoServers}

ToolArgs ==
    {EmptyMap, "s1" :> <<"t1", "t2">>, "s1" :> <<"t2", "t1">>, "s2" :> <<"t2">>,
     ("s1" :> <<"t1", "t2">>) @@ ("s2" :> <<"t2">>)}

OwnTool(n) == [kind |-> "tool", name |-> n]
ToolWrapper(n) == [kind |-> "wrapper", name |-> n]

CreateArgs(mcp_servers, mcp_tools, tools, middleware, in_loop, out) ==
    [mcp_servers |-> mcp_servers, mcp_tools |-> mcp_tools, tools |-> tools,
     middleware |-> middleware, in_loop |-> in_loop, out |-> out]

CreateCalls ==
    {CreateArgs(s, t, tl, mw, l, out) :
        s \in ServerArgs, t \in ToolArgs,
        tl \in {<<>>, <<OwnTool("own")>>},
        mw \in {<<>>, <<"mw1">>, <<"mw1", "mw2">>},
        l \in BOOLEAN, out \in LoaderOutcomes(StaticServers)}

\* "for server_name, tool_names in mcp_tools.items(): for tool_name in
\* tool_names": the names of the filter, server by server
FilterNames(f) ==
    (IF "s1" \in DOMAIN f THEN f["s1"] ELSE <<>>)
    \o (IF "s2" \in DOMAIN f THEN f["s2"] ELSE <<>>)

\* what a call gives: the lists handed to deepagents or the error raised,
\* whether McpToolsLoader(...) was called, and how often the loader was
CreateRet(kind, msg, constructed, loads, middleware_list, tools_list) ==
    [kind |-> kind, msg |-> msg, constructed |-> constructed, loads |-> loads,
     middleware_list |-> middleware_list, tools_list |-> tools_list]

\* (mutant) the tool-loading middleware is appended to the caller's
create_deep_agentAppends(a) ==
    LET dynamic == ModeOf(extract_template_vars(a.mcp_servers))
        loads == IF ~dynamic /\ ~a.in_loop THEN 1 ELSE 0
        loaded == ~dynamic /\ ~a.in_loop /\ a.out.kind = "tools" /\ a.out.tools # <<>>
        cache == IF loaded THEN CacheByName(a.out.tools) ELSE EmptyMap
        names == FilterNames(a.mcp_tools)
    IN  IF DOMAIN a.mcp_servers # {} /\ DOMAIN a.mcp_tools # {}
        THEN IF ~dynamic /\ ~loaded
             THEN CreateRet("RuntimeError", "static", TRUE, loads, <<>>, <<>>)
             ELSE IF \E i \in DOMAIN names : names[i] \notin DOMAIN cache
             THEN CreateRet("RuntimeError", "cannot create", TRUE, loads, <<>>, <<>>)
             ELSE CreateRet("ok", "", TRUE, loads,
                            a.middleware \o <<"McpToolsLoader">>,
                            a.tools \o [i \in DOMAIN names |-> ToolWrapper(names[i])])
        ELSE IF DOMAIN a.mcp_servers # {} \/ DOMAIN a.mcp_tools # {}
        THEN CreateRet("ValueError", "must be provided together", FALSE, 0, <<>>, <<>>)
        ELSE CreateRet("ok", "", FALSE, 0, a.middleware, a.tools)

\* create_deep_agent of lines 165-224: with servers and filter both given the
\* middleware is constructed (a static one loads, and raises in a running
\* loop or on a failed load), one wrapper is created per name of the filter
\* (which looks the tool up in the cache and raises without it), and the
\* lists go to deepagents; with one of the two given it raises; with neither
\* the caller's lists go as they are
create_deep_agent(a) ==
    LET dynamic == ModeOf(extract_template_vars(a.mcp_servers))
        loads == IF ~dynamic /\ ~a.in_loop THEN 1 ELSE 0
        loaded == ~dynamic /\ ~a.in_loop /\ a.out.kind = "tools" /\ a.out.tools # <<>>
        cache == IF loaded THEN CacheByName(a.out.tools) ELSE EmptyMap
        names == FilterNames(a.mcp_tools)
    IN  IF DOMAIN a.mcp_servers # {} /\ DOMAIN a.mcp_tools # {}
        THEN IF ~dynamic /\ ~loaded
             THEN CreateRet("RuntimeError", "static", TRUE, loads, <<>>, <<>>)
             ELSE IF \E i \in DOMAIN names : names[i] \notin DOMAIN cache
             THEN CreateRet("RuntimeError", "cannot create", TRUE, loads, <<>>, <<>>)
             ELSE CreateRet("ok", "", TRUE, loads,
                            <<"McpToolsLoader">> \o a.middleware,
                            a.tools \o [i \in DOMAIN names |-> ToolWrapper(names[i])])
        ELSE IF DOMAIN a.mcp_servers # {} \/ DOMAIN a.mcp_tools # {}
        THEN CreateRet("ValueError", "must be provided together", FALSE, 0, <<>>, <<>>)
        ELSE CreateRet("ok", "", FALSE, 0, a.middleware, a.tools)

\* (mutant) the tools land in the cache but the flag is never set
LoadStaticLeavesFlag(out) ==
    /\ loadCalls' = loadCalls + 1
    /\ loadArg' = servers
    /\ IF out.kind = "tools" /\ out.tools # <<>>
       THEN /\ tools_cache' = CacheByName(out.tools)
            /\ lastTools' = Range(out.tools)
            /\ phase' = "live"
            /\ ret' = Ret("__init__", "ok", "", <<>>, NoHandle, {})
            /\ UNCHANGED tools_loaded
       ELSE /\ phase' = "raised"
            /\ ret' = Ret("__init__", "RuntimeError", "static", <<>>, NoHandle, {})
            /\ UNCHANGED <<tools_loaded, tools_cache, lastTools>>

\* (mutant) a failed load is logged and left for the first invocation
LoadStaticDefersFailure(out) ==
    /\ loadCalls' = loadCalls + 1
    /\ loadArg' = servers
    /\ phase' = "live"
    /\ ret' = Ret("__init__", "ok", "", <<>>, NoHandle, {})
    /\ IF out.kind = "tools" /\ out.tools # <<>>
       THEN /\ tools_cache' = CacheByName(out.tools)
            /\ tools_loaded' = TRUE
            /\ lastTools' = Range(out.tools)
       ELSE UNCHANGED <<tools_loaded, tools_cache, lastTools>>

\* _load_static_tools on a thread without a running loop: run_until_complete
\* gives the loader's outcome out, an empty list or an error makes it raise
LoadStatic(out) ==
    /\ loadCalls' = loadCalls + 1
    /\ loadArg' = servers
    /\ IF out.kind = "tools" /\ out.tools # <<>>
       THEN /\ tools_cache' = CacheByName(out.tools)
            /\ tools_loaded' = TRUE
            /\ lastTools' = Range(out.tools)
            /\ phase' = "live"
            /\ ret' = Ret("__init__", "ok", "", <<>>, NoHandle, {})
       ELSE /\ phase' = "raised"
            /\ ret' = Ret("__init__", "RuntimeError", "static", <<>>, NoHandle, {})
            /\ UNCHANGED <<tools_loaded, tools_cache, lastTools>>

\* (mutant) the constructor of a dynamic middleware probes the servers as they are
ConstructDynamicProbes ==
    /\ loadCalls' = loadCalls + 1
    /\ loadArg' = servers
    /\ \E out \in LoaderOutcomes(servers) :
          /\ phase' = IF out.kind = "Exception" THEN "raised" ELSE "live"
          /\ ret' = Ret("__init__", IF out.kind = "Exception" THEN "RuntimeError" ELSE "ok",
                        "", <<>>, NoHandle, {})
    /\ UNCHANGED <<tools_loaded, tools_cache, lastTools>>

\* __init__ of a configuration with template variables: nothing is loaded
ConstructDynamic ==
    /\ phase' = "live"
    /\ ret' = Ret("__init__", "ok", "", <<>>, NoHandle, {})
    /\ UNCHANGED <<tools_loaded, tools_cache, loadCalls, loadArg, lastTools>>

Construct ==
    /\ phase = "new"
    /\ template_vars' = extract_template_vars(servers)
    /\ is_dynamic' = ModeOf(template_vars')
    /\ \/ /\ is_dynamic'
          /\ ConstructDynamic
       \/ /\ ~is_dynamic'
          /\ inLoop
          /\ phase' = "raised"
          /\ ret' = Ret("__init__", "RuntimeError", "static", <<>>, NoHandle, {})
          /\ UNCHANGED <<tools_loaded, tools_cache, loadCalls, loadArg, lastTools>>
       \/ /\ ~is_dynamic'
          /\ ~inLoop
          /\ \E out \in LoaderOutcomes(servers) : LoadStatic(out)
    /\ UNCHANGED <<servers, tool_filter, inLoop, calls, invConn, overlapped, outside>>

\* ------------------------------------------------------------ abefore_agent
\* (mutant) the error names every template variable, supplied or not
ExtractedNamesAll(r) ==
    IF r.form \in {"none", "other"} \/ ~r.has \/ (r.form = "obj" /\ DOMAIN r.conf = {})
    THEN [ok |-> FALSE, msg |-> "requires", names |-> sorted(template_vars)]
    ELSE IF template_vars \ DOMAIN r.conf # {}
    THEN [ok |-> FALSE, msg |-> "missing", names |-> sorted(template_vars)]
    ELSE [ok |-> TRUE, msg |-> "", names |-> <<>>]

\* (mutant) only a runtime object is understood, a plain mapping is an
\* unexpected runtime type
ExtractedObjectsOnly(r) ==
    IF r.form # "obj" \/ ~r.has \/ DOMAIN r.conf = {}
    THEN [ok |-> FALSE, msg |-> "requires", names |-> sorted(template_vars)]
    ELSE IF template_vars \ DOMAIN r.conf # {}
    THEN [ok |-> FALSE, msg |-> "missing", names |-> sorted(template_vars \ DOMAIN r.conf)]
    ELSE [ok |-> TRUE, msg |-> "", names |-> <<>>]

\* lines 204-254: the configurable mapping of the invocation context is usable,
\* or the ValueError the hook raises when it has none or it misses a variable
Extracted(r) ==
    IF r.form = "none" \/ r.form = "other"
    THEN [ok |-> FALSE, msg |-> "requires", names |-> sorted(template_vars)]
    ELSE IF r.form = "obj" /\ (~r.has \/ DOMAIN r.conf = {})
    THEN [ok |-> FALSE, msg |-> "requires", names |-> sorted(template_vars)]
    ELSE IF r.form = "dict" /\ ~r.has
    THEN [ok |-> FALSE, msg |-> "requires", names |-> sorted(template_vars)]
    ELSE IF template_vars \ DOMAIN r.conf # {}
    THEN [ok |-> FALSE, msg |-> "missing", names |-> sorted(template_vars \ DOMAIN r.conf)]
    ELSE [ok |-> TRUE, msg |-> "", names |-> <<>>]

\* what the values of invocation context r resolve the servers to
Resolved(r) ==
    IF template_vars \subseteq Supplied(r)
    THEN substitute_templates(servers, r.conf)
    ELSE EmptyMap

\* (mutant) the idempotency check is gone
AlreadyLoadedIgnored == FALSE

\* "if self._tools_loaded": loaded for this instance, nothing to do
AlreadyLoaded == tools_loaded

\* (mutant) the resolved descriptors replace self.servers
BeforeEnterPersists(r) ==
    /\ phase = "live"
    /\ BagCardinality(calls) < MaxCalls
    /\ IF ~is_dynamic \/ AlreadyLoaded
       THEN /\ ret' = Ret("abefore_agent", "ok", "", <<>>, NoHandle, {})
            /\ UNCHANGED <<calls, loadCalls, loadArg, servers>>
       ELSE IF ~Extracted(r).ok
       THEN /\ ret' = Ret("abefore_agent", "ValueError", Extracted(r).msg,
                          Extracted(r).names, NoHandle, {})
            /\ UNCHANGED <<calls, loadCalls, loadArg, servers>>
       ELSE /\ loadCalls < MaxLoads
            /\ loadCalls' = loadCalls + 1
            /\ loadArg' = substitute_templates(servers, r.conf)
            /\ servers' = loadArg'
            /\ calls' = calls (+) SetToBag({loadArg'})
            /\ UNCHANGED ret
    /\ invConn' = Resolved(r)
    /\ overlapped' = (overlapped \/ Awaiting # {})
    /\ UNCHANGED <<tool_filter, template_vars, is_dynamic, phase, inLoop,
                   tools_loaded, tools_cache, lastTools, outside>>

\* (mutant) a call that finds a load in flight waits for it and starts none
BeforeEnterJoins(r) ==
    /\ phase = "live"
    /\ BagCardinality(calls) < MaxCalls
    /\ IF ~is_dynamic \/ AlreadyLoaded \/ Awaiting # {}
       THEN /\ ret' = Ret("abefore_agent", "ok", "", <<>>, NoHandle, {})
            /\ UNCHANGED <<calls, loadCalls, loadArg>>
       ELSE IF ~Extracted(r).ok
       THEN /\ ret' = Ret("abefore_agent", "ValueError", Extracted(r).msg,
                          Extracted(r).names, NoHandle, {})
            /\ UNCHANGED <<calls, loadCalls, loadArg>>
       ELSE /\ loadCalls < MaxLoads
            /\ loadCalls' = loadCalls + 1
            /\ loadArg' = substitute_templates(servers, r.conf)
            /\ calls' = calls (+) SetToBag({loadArg'})
            /\ UNCHANGED ret
    /\ invConn' = Resolved(r)
    /\ overlapped' = (overlapped \/ Awaiting # {})
    /\ UNCHANGED <<config, tools_loaded, tools_cache, lastTools, outside>>

\* abefore_agent from its entry to its return, its raise, or its suspension in
\* "await load_mcp_tools(...)"
BeforeEnter(r) ==
    /\ phase = "live"
    /\ BagCardinality(calls) < MaxCalls
    /\ IF ~is_dynamic \/ AlreadyLoaded
       THEN /\ ret' = Ret("abefore_agent", "ok", "", <<>>, NoHandle, {})
            /\ UNCHANGED <<calls, loadCalls, loadArg>>
       ELSE IF ~Extracted(r).ok
       THEN /\ ret' = Ret("abefore_agent", "ValueError", Extracted(r).msg,
                          Extracted(r).names, NoHandle, {})
            /\ UNCHANGED <<calls, loadCalls, loadArg>>
       ELSE /\ loadCalls < MaxLoads
            /\ loadCalls' = loadCalls + 1
            /\ loadArg' = substitute_templates(servers, r.conf)
            /\ calls' = calls (+) SetToBag({loadArg'})
            /\ UNCHANGED ret
    /\ invConn' = Resolved(r)
    /\ overlapped' = (overlapped \/ Awaiting # {})
    /\ UNCHANGED <<config, tools_loaded, tools_cache, lastTools, outside>>

\* (mutant) a failed load is logged and the hook returns normally
RaisedSwallowed(out) == "ok"

\* what the hook raises for a load that gave no tools: a ValueError of the
\* loader is re-raised as it is, anything else is wrapped in a RuntimeError
Raised(out) == IF out.kind = "ValueError" THEN "ValueError" ELSE "RuntimeError"

\* (mutant) a load that gave no tools is tried again before the hook gives up
BeforeResumeRetries(arg, out) ==
    /\ BagIn(arg, calls)
    /\ out \in LoaderOutcomes(arg)
    /\ IF out.kind = "tools" /\ out.tools # <<>>
       THEN /\ calls' = calls (-) SetToBag({arg})
            /\ tools_cache' = CacheByName(out.tools)
            /\ tools_loaded' = TRUE
            /\ lastTools' = Range(out.tools)
            /\ ret' = Ret("abefore_agent", "ok", "loaded", <<>>, NoHandle, {})
            /\ UNCHANGED loadCalls
       ELSE IF loadCalls < MaxLoads
       THEN /\ loadCalls' = loadCalls + 1
            /\ UNCHANGED <<calls, ret, tools_loaded, tools_cache, lastTools>>
       ELSE /\ calls' = calls (-) SetToBag({arg})
            /\ ret' = Ret("abefore_agent", Raised(out), "load", <<>>, NoHandle, {})
            /\ UNCHANGED <<loadCalls, tools_loaded, tools_cache, lastTools>>
    /\ UNCHANGED <<config, loadArg, invConn, overlapped, outside>>

\* (mutant) a load that gave an empty list of tools counts as a load
BeforeResumeAcceptsEmpty(arg, out) ==
    /\ BagIn(arg, calls)
    /\ out \in LoaderOutcomes(arg)
    /\ calls' = calls (-) SetToBag({arg})
    /\ IF out.kind = "tools"
       THEN /\ tools_cache' = CacheByName(out.tools)
            /\ tools_loaded' = TRUE
            /\ lastTools' = Range(out.tools)
            /\ ret' = Ret("abefore_agent", "ok", "loaded", <<>>, NoHandle, {})
       ELSE /\ ret' = Ret("abefore_agent", Raised(out), "load", <<>>, NoHandle, {})
            /\ UNCHANGED <<tools_loaded, tools_cache, lastTools>>
    /\ UNCHANGED <<config, loadCalls, loadArg, invConn, overlapped, outside>>

\* the loader coroutine finishes and abefore_agent runs on to its end
BeforeResume(arg, out) ==
    /\ BagIn(arg, calls)
    /\ out \in LoaderOutcomes(arg)
    /\ calls' = calls (-) SetToBag({arg})
    /\ IF out.kind = "tools" /\ out.tools # <<>>
       THEN /\ tools_cache' = CacheByName(out.tools)
            /\ tools_loaded' = TRUE
            /\ lastTools' = Range(out.tools)
            /\ ret' = Ret("abefore_agent", "ok", "loaded", <<>>, NoHandle, {})
       ELSE /\ ret' = Ret("abefore_agent", Raised(out), "load", <<>>, NoHandle, {})
            /\ UNCHANGED <<tools_loaded, tools_cache, lastTools>>
    /\ UNCHANGED <<config, loadCalls, loadArg, invConn, overlapped, outside>>

\* the task running abefore_agent is cancelled at the await: CancelledError is
\* no Exception, so neither handler of the hook catches it
BeforeCancel(arg) ==
    /\ BagIn(arg, calls)
    /\ calls' = calls (-) SetToBag({arg})
    /\ ret' = Ret("abefore_agent", "CancelledError", "", <<>>, NoHandle, {})
    /\ UNCHANGED <<config, tools_loaded, tools_cache, lastTools, loadCalls, loadArg,
                   invConn, overlapped, outside>>

\* ------------------------------------------------------------- aafter_agent
\* (mutant) the flag is reset but the cache keeps its entries
AfterAgentKeepsCache ==
    /\ phase = "live"
    /\ overlapped' = (overlapped \/ Awaiting # {})
    /\ ret' = Ret("aafter_agent", "ok", "", <<>>, NoHandle, DOMAIN tools_cache)
    /\ tools_loaded' = (tools_loaded /\ ~is_dynamic)
    /\ lastTools' = IF is_dynamic THEN {} ELSE lastTools
    /\ UNCHANGED <<config, calls, loadCalls, loadArg, invConn, tools_cache, outside>>

\* (mutant) the cache is cleared whatever the mode
AfterAgentClearsStatic ==
    /\ phase = "live"
    /\ overlapped' = (overlapped \/ Awaiting # {})
    /\ ret' = Ret("aafter_agent", "ok", "", <<>>, NoHandle, DOMAIN tools_cache)
    /\ tools_cache' = EmptyMap
    /\ tools_loaded' = FALSE
    /\ lastTools' = {}
    /\ UNCHANGED <<config, calls, loadCalls, loadArg, invConn, outside>>

AfterAgent ==
    /\ phase = "live"
    /\ overlapped' = (overlapped \/ Awaiting # {})
    /\ ret' = Ret("aafter_agent", "ok", "", <<>>, NoHandle, DOMAIN tools_cache)
    /\ IF is_dynamic
       THEN /\ tools_cache' = EmptyMap
            /\ tools_loaded' = FALSE
            /\ lastTools' = {}
       ELSE UNCHANGED <<tools_loaded, tools_cache, lastTools>>
    /\ UNCHANGED <<config, calls, loadCalls, loadArg, invConn, outside>>

\* ----------------------------------------------------------------- get_tool
\* (mutant) the lookup goes to the cache without looking at the flag
get_toolNoLoadedCheck(n) ==
    IF n \notin DOMAIN tools_cache
    THEN Ret("get_tool", "ValueError", "not found", <<>>, NoHandle, DOMAIN tools_cache)
    ELSE Ret("get_tool", "ok", "", <<>>, tools_cache[n], {})

\* (mutant) the error for an unknown name lists nothing
get_toolNoListing(n) ==
    IF ~tools_loaded
    THEN Ret("get_tool", "RuntimeError", IF is_dynamic THEN "dynamic" ELSE "static",
             <<>>, NoHandle, {})
    ELSE IF n \notin DOMAIN tools_cache
    THEN Ret("get_tool", "ValueError", "not found", <<>>, NoHandle, {})
    ELSE Ret("get_tool", "ok", "", <<>>, tools_cache[n], {})

get_tool(n) ==
    IF ~tools_loaded
    THEN Ret("get_tool", "RuntimeError", IF is_dynamic THEN "dynamic" ELSE "static",
             <<>>, NoHandle, {})
    ELSE IF n \notin DOMAIN tools_cache
    THEN Ret("get_tool", "ValueError", "not found", <<>>, NoHandle, DOMAIN tools_cache)
    ELSE Ret("get_tool", "ok", "", <<>>, tools_cache[n], {})

GetTool(n) ==
    /\ phase = "live"
    /\ ret' = get_tool(n)
    /\ overlapped' = (overlapped \/ Awaiting # {})
    /\ UNCHANGED <<config, tools_loaded, tools_cache, lastTools, calls, loadCalls,
                   loadArg, invConn, outside>>

\* ------------------------------------------------------------ tool wrappers
\* a wrapper closure: the tool create_tool_wrapper looked up to copy its
\* metadata from (none for a lazy wrapper), and whether it was made before
\* the loader had ever been invoked
Wrapper(held, early) == [held |-> held, early |-> early]

\* outcome of a wrapper operation; steps lists what it called, in order, and
\* args is what the remote tool was invoked with
WRet(op, kind, msg, tool, steps, args) ==
    [op |-> op, kind |-> kind, msg |-> msg, names |-> <<>>, tool |-> tool, had |-> {},
     steps |-> steps, args |-> args]

\* get_user_token(): the caller's token from the ambient context, a
\* ValueError when none is set
get_user_token(tokenSet) == IF tokenSet THEN "ok" ELSE "ValueError"

\* the tool names for which single wrappers are made; create_deep_agent makes
\* one for every requested name
WrappedNames == {"t1"}

\* create_tool_wrapper: looks the tool up at once, and fails if that fails
CreateToolWrapper(n) ==
    /\ phase = "live"
    /\ n \notin DOMAIN wrappers
    /\ IF get_tool(n).kind # "ok"
       THEN /\ ret' = WRet("create_tool_wrapper", "RuntimeError", "cannot create",
                           NoHandle, <<"get_tool">>, "")
            /\ UNCHANGED wrappers
       ELSE /\ ret' = WRet("create_tool_wrapper", "ok", "", NoHandle, <<"get_tool">>, "")
            /\ wrappers' = wrappers @@ (n :> Wrapper(get_tool(n).tool, loadCalls = 0))
    /\ overlapped' = (overlapped \/ Awaiting # {})
    /\ UNCHANGED <<config, tools_loaded, tools_cache, lastTools, calls, loadCalls,
                   loadArg, invConn, loader, unit>>

\* create_lazy_tool_wrapper: touches nothing of the middleware
CreateLazyToolWrapper(n) ==
    /\ phase = "live"
    /\ n \notin DOMAIN wrappers
    /\ ret' = WRet("create_lazy_tool_wrapper", "ok", "", NoHandle, <<>>, "")
    /\ wrappers' = wrappers @@ (n :> Wrapper(NoHandle, loadCalls = 0))
    /\ UNCHANGED <<config, tools_loaded, tools_cache, lastTools, calls, loadCalls,
                   loadArg, invConn, overlapped, loader, unit>>

\* (mutant) the wrapper keeps using the tool it was created with
ResolveHeld(n) ==
    IF wrappers[n].held # NoHandle
    THEN Ret("get_tool", "ok", "", <<>>, wrappers[n].held, {})
    ELSE get_tool(n)

\* "mcp_tool = middleware_instance.get_tool(tool_name)" in the wrapper body
Resolve(n) == get_tool(n)

\* (mutant) the tool is resolved before the token is looked at
wrapperResolvesFirst(n, tokenSet, kwargs, invoked) ==
    IF Resolve(n).kind # "ok"
    THEN WRet("wrapper", "RuntimeError", "not available", NoHandle, <<"get_tool">>, "")
    ELSE IF get_user_token(tokenSet) # "ok"
    THEN WRet("wrapper", "ValueError", "token", NoHandle, <<"get_tool", "get_user_token">>, "")
    ELSE WRet("wrapper", IF invoked = "ok" THEN "ok" ELSE "RuntimeError",
              IF invoked = "ok" THEN "" ELSE "invocation failed", Resolve(n).tool,
              <<"get_tool", "get_user_token", "invoke">>, kwargs)

\* the body of wrapper and of lazy_wrapper (the two differ in their log lines):
\* token check, lookup, then mcp_tool.invoke(kwargs), which returns or raises
wrapper(n, tokenSet, kwargs, invoked) ==
    IF get_user_token(tokenSet) # "ok"
    THEN WRet("wrapper", "ValueError", "token", NoHandle, <<"get_user_token">>, "")
    ELSE IF Resolve(n).kind # "ok"
    THEN WRet("wrapper", "RuntimeError", "not available", NoHandle,
              <<"get_user_token", "get_tool">>, "")
    ELSE WRet("wrapper", IF invoked = "ok" THEN "ok" ELSE "RuntimeError",
              IF invoked = "ok" THEN "" ELSE "invocation failed", Resolve(n).tool,
              <<"get_user_token", "get_tool", "invoke">>, kwargs)

\* the arguments a wrapper is called with
Kwargs == {"k1", "k2"}

\* what invoking a remote tool may do
InvokeOutcomes == {"ok", "raise"}

WrapperCall(n, tokenSet, kwargs, invoked) ==
    /\ phase = "live"
    /\ n \in DOMAIN wrappers
    /\ ret' = wrapper(n, tokenSet, kwargs, invoked)
    /\ overlapped' = (overlapped \/ Awaiting # {})
    /\ UNCHANGED <<config, tools_loaded, tools_cache, lastTools, calls, loadCalls,
                   loadArg, invConn, outside>>

\* ------------------------------------------------------------ agent assembly
\* every tool name of the tool filter
Requested == requested_tools(tool_filter)

\* create_deep_agent from the return of McpToolsLoader(...) on: one
\* create_tool_wrapper per requested tool, then the graph is compiled; a
\* wrapper that cannot be created makes create_deep_agent raise
AssembleAgent ==
    /\ phase = "live"
    /\ ret.op = "__init__"
    /\ calls = EmptyBag
    /\ IF \A n \in Requested : get_tool(n).kind = "ok"
       THEN /\ wrappers' = [n \in Requested |-> Wrapper(get_tool(n).tool, loadCalls = 0)]
            /\ ret' = WRet("create_deep_agent", "ok", "", NoHandle, <<"get_tool">>, "")
            /\ phase' = "live"
       ELSE /\ ret' = WRet("create_deep_agent", "RuntimeError", "cannot create",
                           NoHandle, <<"get_tool">>, "")
            /\ phase' = "dropped"
            /\ UNCHANGED wrappers
    /\ UNCHANGED <<servers, tool_filter, template_vars, is_dynamic, inLoop, tools_loaded,
                   tools_cache, lastTools, calls, loadCalls, loadArg, invConn, overlapped,
                   loader, unit>>

\* ------------------------------------------------------------ specification
Next ==
    \/ Construct
    \/ \E r \in Runtimes : BeforeEnter(r)
    \/ \E arg \in Awaiting : \E out \in LoaderOutcomes(arg) : BeforeResume(arg, out)
    \/ \E arg \in Awaiting : BeforeCancel(arg)
    \/ AfterAgent
    \/ \E n \in QueryNames : GetTool(n)

Spec == Init /\ [][Next]_vars

\* the harness keeps calling the hooks and the loader keeps answering
FairSpec == Spec /\ WF_vars(Next)

\* the middleware together with create_deep_agent and the tool wrappers
\* the contexts a compiled agent hands the hook: its config mapping
AgentRuntimes == {r \in Runtimes : r.form = "dict" /\ r.has}

AgentNext ==
    \/ Construct
    \/ \E r \in AgentRuntimes : BeforeEnter(r)
    \/ \E arg \in Awaiting : \E out \in LoaderOutcomes(arg) : BeforeResume(arg, out)
    \/ \E arg \in Awaiting : BeforeCancel(arg)
    \/ AfterAgent
    \/ \E n \in QueryNames : GetTool(n)
    \/ AssembleAgent
    \/ \E n \in WrappedNames : CreateToolWrapper(n)
    \/ \E n \in WrappedNames : CreateLazyToolWrapper(n)
    \/ \E n \in DOMAIN wrappers : \E tokenSet \in BOOLEAN : \E kwargs \in Kwargs :
          \E invoked \in InvokeOutcomes : WrapperCall(n, tokenSet, kwargs, invoked)

AgentSpec == Init /\ [][AgentNext]_vars

\* ------------------------------------------- the loader called by itself
\* the state in which load_mcp_tools is called directly, as its own unit
LoaderInit ==
    /\ servers = StaticServers
    /\ tool_filter = FilterFor(servers)
    /\ template_vars = {}
    /\ is_dynamic = FALSE
    /\ tools_loaded = FALSE
    /\ tools_cache = EmptyMap
    /\ phase = "new"
    /\ inLoop = FALSE
    /\ calls = EmptyBag
    /\ loadCalls = 0
    /\ loadArg = EmptyMap
    /\ lastTools = {}
    /\ invConn = EmptyMap
    /\ overlapped = FALSE
    /\ ret = Ret("none", "ok", "", <<>>, NoHandle, {})
    /\ wrappers = EmptyMap
    /\ loader \in LoaderCalls
    /\ unit = UnitIdle

\* the call up to "await mcp_client.get_tools()": a blank token raises at once,
\* otherwise the client is built and the coroutine waits for the servers
LoadCall ==
    /\ loader.pc = "called"
    /\ loader' = IF loader.user_token \in BlankTokens
                 THEN [loader EXCEPT
                         !.pc = "done",
                         !.result = load_mcp_tools(loader.servers, loader.tool_filter,
                                                   loader.user_token, loader.remote)]
                 ELSE [loader EXCEPT !.pc = "fetching"]
    /\ UNCHANGED <<config, tools_loaded, tools_cache, lastTools, calls, loadCalls,
                   loadArg, invConn, overlapped, ret, wrappers, unit>>

\* the servers have answered or the transport has failed: the call runs to its
\* return or its raise; nothing else ends the wait
LoadTools ==
    /\ loader.pc = "fetching"
    /\ loader.remote.kind # "silent"
    /\ loader' = [loader EXCEPT
                    !.pc = "done",
                    !.result = load_mcp_tools(loader.servers, loader.tool_filter,
                                              loader.user_token, loader.remote)]
    /\ UNCHANGED <<config, tools_loaded, tools_cache, lastTools, calls, loadCalls,
                   loadArg, invConn, overlapped, ret, wrappers, unit>>

LoaderNext == LoadCall \/ LoadTools

LoaderSpec == LoaderInit /\ [][LoaderNext]_vars

\* the event loop resumes a coroutine whose awaited call has completed
LoaderFairSpec == LoaderSpec /\ WF_vars(LoaderNext)

\* ------------------------------------ the template engine called by itself
\* no middleware instance, wrapper or loader call is involved
instance == <<config, tools_loaded, tools_cache, lastTools, calls, loadCalls, loadArg,
              invConn, overlapped, ret>>

Aside ==
    /\ servers = StaticServers
    /\ tool_filter = FilterFor(servers)
    /\ template_vars = {}
    /\ is_dynamic = FALSE
    /\ tools_loaded = FALSE
    /\ tools_cache = EmptyMap
    /\ phase = "new"
    /\ inLoop = FALSE
    /\ calls = EmptyBag
    /\ loadCalls = 0
    /\ loadArg = EmptyMap
    /\ lastTools = {}
    /\ invConn = EmptyMap
    /\ overlapped = FALSE
    /\ ret = Ret("none", "ok", "", <<>>, NoHandle, {})
    /\ wrappers = EmptyMap
    /\ loader = LoaderIdle

\* substitute is about to be called on a configuration with some values
TemplateInit ==
    /\ Aside
    /\ unit \in {UnitCall("substitute", "called", c, c, v, SubstituteRet(TRUE, NoNode, <<>>)) :
                    c \in Configs(MaxStrLen), v \in ValueMaps}

\* the call runs to its return or its raise
Substitute ==
    /\ unit.fn = "substitute"
    /\ unit.pc = "called"
    /\ unit' = [unit EXCEPT
                  !.pc = "done",
                  !.result = substitute(unit.node, unit.values),
                  !.node = InputAfter(unit.node, unit.values)]
    /\ UNCHANGED <<instance, wrappers, loader>>

TemplateNext == Substitute

TemplateSpec == TemplateInit /\ [][TemplateNext]_vars

\* ----------------------------------- the configuration models by themselves
\* McpToolsConfig(tools=v) or McpServerConfig(**config_dict) is about to be
\* built
ConfigInit ==
    /\ Aside
    /\ unit \in {UnitCall("validate_tools_structure", "called", f, f, EmptyMap,
                          ValidateRet(FALSE, EmptyMap, "")) : f \in Filters(MaxNameLen)}
               \cup {UnitCall("parse_mcp_server_config", "called", raw, raw, EmptyMap,
                               ServerRet(FALSE, "", NoUrl, {}, {})) : raw \in RawServers}

\* the validator runs to its return or its raise
ValidateTools ==
    /\ unit.fn = "validate_tools_structure"
    /\ unit.pc = "called"
    /\ unit' = [unit EXCEPT !.pc = "done", !.result = validate_tools_structure(unit.node)]
    /\ UNCHANGED <<instance, wrappers, loader>>

\* the model is built or a ValidationError is raised
ParseServerConfig ==
    /\ unit.fn = "parse_mcp_server_config"
    /\ unit.pc = "called"
    /\ unit' = [unit EXCEPT !.pc = "done", !.result = parse_mcp_server_config(unit.node)]
    /\ UNCHANGED <<instance, wrappers, loader>>

ConfigNext == ValidateTools \/ ParseServerConfig

ConfigSpec == ConfigInit /\ [][ConfigNext]_vars

\* ------------------------------------------ create_deep_agent called by itself
CreateInit ==
    /\ Aside
    /\ unit \in {UnitCall("create_deep_agent", "called", a, a, EmptyMap,
                          CreateRet("none", "", FALSE, 0, <<>>, <<>>)) : a \in CreateCalls}

\* the call runs to its return or its raise
CreateDeepAgent ==
    /\ unit.fn = "create_deep_agent"
    /\ unit.pc = "called"
    /\ unit' = [unit EXCEPT !.pc = "done", !.result = create_deep_agent(unit.node)]
    /\ UNCHANGED <<instance, wrappers, loader>>

CreateNext == CreateDeepAgent

CreateSpec == CreateInit /\ [][CreateNext]_vars

\* ------------------------------------------------- LoopDetectionMiddleware
\* graphton/core/loop_detection.py, known by its tests: the middleware keeps
\* the recent tool calls as (name, hash of the arguments), counts the
\* warnings it gave, and remembers that it gave the final one
LoopConfig(history_size, consecutive_threshold, total_threshold, enabled) ==
    [history_size |-> history_size, consecutive_threshold |-> consecutive_threshold,
     total_threshold |-> total_threshold, enabled |-> enabled]

\* LoopDetectionMiddleware(): the defaults, the same switched off, and a
\* custom configuration
LoopConfigs ==
    {LoopConfig(10, 3, 5, TRUE), LoopConfig(10, 3, 5, FALSE), LoopConfig(5, 2, 3, TRUE)}

ToolCall(name, hash) == [name |-> name, hash |-> hash]

\* the same tool with two different arguments
ToolCalls == {ToolCall("read_file", "h1"), ToolCall("read_file", "h2")}

\* what aafter_step returns: None, or the messages with an intervention
\* appended ("LOOP WARNING ...", or "LOOP DETECTED ... Critical repetition limit")
NoChange == [kind |-> "None", tool |-> ""]
Intervention(kind, tool) == [kind |-> kind, tool |-> tool]

\* the middleware: its configuration, its three fields, and the last
\* operation on it with its argument, its return value and the fields before
LoopMw(cfg, history, count, stopped, op, arg, result, had) ==
    [fn |-> "LoopDetectionMiddleware", pc |-> "idle", config |-> cfg,
     _tool_history |-> history, _intervention_count |-> count, _stopped |-> stopped,
     op |-> op, arg |-> arg, result |-> result, had |-> had]

Fields(mw) ==
    [_tool_history |-> mw._tool_history, _intervention_count |-> mw._intervention_count,
     _stopped |-> mw._stopped]

\* _detect_consecutive_loops: how many times the last entry of the history
\* stands at its end without interruption
_detect_consecutive_loops(h) ==
    IF h = <<>> THEN 0
    ELSE CHOOSE k \in 1..Len(h) :
            /\ \A i \in (Len(h) - k + 1)..Len(h) : h[i] = h[Len(h)]
            /\ k = Len(h) \/ h[Len(h) - k] # h[Len(h)]

\* _detect_total_repetitions: how often the most frequent entry occurs
_detect_total_repetitions(h) ==
    IF h = <<>> THEN 0
    ELSE LET n(i) == Cardinality({j \in DOMAIN h : h[j] = h[i]})
         IN  n(CHOOSE i \in DOMAIN h : \A j \in DOMAIN h : n(j) <= n(i))

\* the history is a deque of at most history_size entries
Record(h, call, size) ==
    LET all == Append(h, call)
    IN  IF Len(all) > size THEN Tail(all) ELSE all

\* (mutant) the stopped flag survives into the next execution
abefore_agentKeepsStopped(mw) ==
    [mw EXCEPT !._tool_history = <<>>, !._intervention_count = 0,
               !.op = "abefore_agent", !.arg = ToolCall("", ""), !.result = NoChange,
               !.had = Fields(mw)]

\* abefore_agent: a new execution starts with no history, no interventions
\* and the stopped flag down
abefore_agent(mw) ==
    [mw EXCEPT !._tool_history = <<>>, !._intervention_count = 0, !._stopped = FALSE,
               !.op = "abefore_agent", !.arg = ToolCall("", ""), !.result = NoChange,
               !.had = Fields(mw)]

\* (mutant) a stopped middleware goes on recording
aafter_stepIgnoresStopped(mw, call, counted) ==
    LET did == [mw EXCEPT !.op = "aafter_step", !.arg = call, !.had = Fields(mw),
                          !.result = NoChange]
        h == Record(mw._tool_history, call, mw.config.history_size)
    IN  IF ~mw.config.enabled THEN did
        ELSE IF _detect_total_repetitions(h) >= mw.config.total_threshold
        THEN [did EXCEPT !._tool_history = h, !._stopped = TRUE,
                         !._intervention_count = IF counted THEN @ + 1 ELSE @,
                         !.result = Intervention("final", call.name)]
        ELSE IF _detect_consecutive_loops(h) >= mw.config.consecutive_threshold
        THEN [did EXCEPT !._tool_history = h, !._intervention_count = @ + 1,
                         !.result = Intervention("warning", call.name)]
        ELSE [did EXCEPT !._tool_history = h]

\* aafter_step on a state whose last message carries one tool call: nothing
\* when switched off or stopped; otherwise the call is recorded, and the
\* final intervention (with the stop) or a warning is appended when the
\* history calls for it.  Whether the final intervention is counted is not
\* fixed by the tests: counted says which.
aafter_step(mw, call, counted) ==
    LET did == [mw EXCEPT !.op = "aafter_step", !.arg = call, !.had = Fields(mw),
                          !.result = NoChange]
        h == Record(mw._tool_history, call, mw.config.history_size)
    IN  IF ~mw.config.enabled \/ mw._stopped THEN did
        ELSE IF _detect_total_repetitions(h) >= mw.config.total_threshold
        THEN [did EXCEPT !._tool_history = h, !._stopped = TRUE,
                         !._intervention_count = IF counted THEN @ + 1 ELSE @,
                         !.result = Intervention("final", call.name)]
        ELSE IF _detect_consecutive_loops(h) >= mw.config.consecutive_threshold
        THEN [did EXCEPT !._tool_history = h, !._intervention_count = @ + 1,
                         !.result = Intervention("warning", call.name)]
        ELSE [did EXCEPT !._tool_history = h]

\* the middleware as constructed
LoopInit ==
    /\ Aside
    /\ unit \in {LoopMw(c, <<>>, 0, FALSE, "__init__", ToolCall("", ""), NoChange,
                        [_tool_history |-> <<>>, _intervention_count |-> 0,
                         _stopped |-> FALSE]) : c \in LoopConfigs}

\* an execution starts
BeforeAgent ==
    /\ unit.fn = "LoopDetectionMiddleware"
    /\ unit' = [abefore_agent(unit) EXCEPT !.pc = "running"]
    /\ UNCHANGED <<instance, wrappers, loader>>

\* a step of the running execution has ended with a tool call
AfterStep(call, counted) ==
    /\ unit.fn = "LoopDetectionMiddleware"
    /\ unit.pc = "running"
    /\ unit' = aafter_step(unit, call, counted)
    /\ UNCHANGED <<instance, wrappers, loader>>

LoopNext ==
    \/ BeforeAgent
    \/ \E call \in ToolCalls, counted \in BOOLEAN : AfterStep(call, counted)

LoopSpec == LoopInit /\ [][LoopNext]_vars

\* ------------------------------------- create_sandbox_backend (type "daytona")
\* "for _ in range(90)": the number of readiness polls of a created sandbox
PollLimit == 90

\* the daytona configuration: which of the optional keys it holds, and
\* whether an API key is found in it or in the environment
SandboxConfigs == [sandbox_id : BOOLEAN, snapshot_id : BOOLEAN, api_key : BOOLEAN]

\* "if sandbox_id: ... elif snapshot_id: ... else: ...": an existing sandbox
\* is reused, one is created from the snapshot, or a vanilla one is created
SandboxMode(c) ==
    IF c.sandbox_id THEN "reuse" ELSE IF c.snapshot_id THEN "snapshot" ELSE "vanilla"

\* what "sandbox.process.exec('echo ready', timeout=5)" meets
ExecOutcomes == {"ready", "nonzero", "raises"}

\* the call under way: where it stands, whether daytona.create() gave a
\* sandbox, the polls made, whether one succeeded, the calls of
\* sandbox.delete(), and what the call returned or raised
SandboxCall(c, pc, created, polls, ready, deletes, kind, msg) ==
    [fn |-> "create_sandbox_backend", pc |-> pc, config |-> c, created |-> created,
     polls |-> polls, ready |-> ready, deletes |-> deletes,
     result |-> [kind |-> kind, msg |-> msg]]

SandboxInit ==
    /\ Aside
    /\ unit \in {SandboxCall(c, "called", FALSE, 0, FALSE, 0, "none", "") :
                    c \in SandboxConfigs}

\* lines 116-173: without an API key the call raises; daytona.get(sandbox_id)
\* gives the existing sandbox or raises; daytona.create(...) gives a new one
\* or raises
Connect(answers) ==
    /\ unit.fn = "create_sandbox_backend"
    /\ unit.pc = "called"
    /\ unit' =
         IF ~unit.config.api_key
         THEN [unit EXCEPT !.pc = "done",
                           !.result = [kind |-> "ValueError", msg |-> "api key"]]
         ELSE IF SandboxMode(unit.config) = "reuse"
         THEN IF answers
              THEN [unit EXCEPT !.pc = "verifying"]
              ELSE [unit EXCEPT !.pc = "done",
                                !.result = [kind |-> "RuntimeError", msg |-> "retrieve"]]
         ELSE IF answers
              THEN [unit EXCEPT !.pc = "polling", !.created = TRUE]
              ELSE [unit EXCEPT !.pc = "done",
                                !.result = [kind |-> "Exception", msg |-> "create"]]
    /\ UNCHANGED <<instance, wrappers, loader>>

\* lines 140-148: the one check of a reused sandbox
Verify(o) ==
    /\ unit.fn = "create_sandbox_backend"
    /\ unit.pc = "verifying"
    /\ unit' =
         IF o = "ready"
         THEN [unit EXCEPT !.pc = "done", !.polls = @ + 1, !.ready = TRUE,
                           !.result = [kind |-> "ok", msg |-> "DaytonaBackend"]]
         ELSE [unit EXCEPT !.pc = "done", !.polls = @ + 1,
                           !.result = [kind |-> "RuntimeError", msg |-> "connect"]]
    /\ UNCHANGED <<instance, wrappers, loader>>

\* one turn of "for _ in range(90)": exit code 0 breaks out and the backend
\* is returned; any other exit code or an exception sleeps and goes on, and
\* after the last turn the else branch is entered
Poll(o) ==
    /\ unit.fn = "create_sandbox_backend"
    /\ unit.pc = "polling"
    /\ unit' =
         IF o = "ready"
         THEN [unit EXCEPT !.pc = "done", !.polls = @ + 1, !.ready = TRUE,
                           !.result = [kind |-> "ok", msg |-> "DaytonaBackend"]]
         ELSE IF unit.polls + 1 = PollLimit
         THEN [unit EXCEPT !.pc = "timeout", !.polls = @ + 1]
         ELSE [unit EXCEPT !.polls = @ + 1]
    /\ UNCHANGED <<instance, wrappers, loader>>

\* (mutant) the timeout is raised and the sandbox is left running
CleanupSkipsDelete(deleted) ==
    /\ unit.fn = "create_sandbox_backend"
    /\ unit.pc = "timeout"
    /\ unit' = [unit EXCEPT !.pc = "done",
                            !.result = [kind |-> "RuntimeError", msg |-> "failed to start"]]
    /\ UNCHANGED <<instance, wrappers, loader>>

\* "try: sandbox.delete() finally: raise RuntimeError(...)": the sandbox is
\* deleted, and whether or not the deletion raises, the timeout is raised
Cleanup(deleted) ==
    /\ unit.fn = "create_sandbox_backend"
    /\ unit.pc = "timeout"
    /\ unit' = [unit EXCEPT !.pc = "done", !.deletes = @ + 1,
                            !.result = [kind |-> "RuntimeError", msg |-> "failed to start"]]
    /\ UNCHANGED <<instance, wrappers, loader>>

SandboxNext ==
    \/ \E answers \in BOOLEAN : Connect(answers)
    \/ \E o \in ExecOutcomes : Verify(o)
    \/ \E o \in ExecOutcomes : Poll(o)
    \/ \E deleted \in BOOLEAN : Cleanup(deleted)

SandboxSpec == SandboxInit /\ [][SandboxNext]_vars

TypeOK ==
    /\ phase \in {"new", "live", "raised", "dropped"}
    /\ tools_loaded \in BOOLEAN
    /\ loadCalls \in 0..MaxLoads
    /\ DOMAIN tools_cache \subseteq ToolNames


\* ------------------------------------------------------------------ claims
\* the loader outcomes that give the hook no tools: an error or an empty list
FailedOutcomes(arg) == {out \in LoaderOutcomes(arg) : ~(out.kind = "tools" /\ out.tools # <<>>)}

NotLoadedError(res) == res.kind = "RuntimeError" /\ res.msg \in {"dynamic", "static"}

\* seq lists exactly the members of S in increasing order
SortedListOf(seq, S) ==
    /\ Len(seq) = Cardinality(S)
    /\ {seq[i] : i \in DOMAIN seq} = S
    /\ \A i, j \in DOMAIN seq : i < j => seq[i] < seq[j]

\* C1: on a dynamic middleware aafter_agent leaves the cache empty and loaded
\* false, and get_tool then fails with "not loaded" for every name, the names
\* cached until then included.
CacheClearingLaw ==
    [][(AfterAgent /\ is_dynamic) =>
          /\ tools_cache' = EmptyMap
          /\ ~tools_loaded'
          /\ \A n \in QueryNames \cup DOMAIN tools_cache : NotLoadedError(get_tool(n)')]_vars

\* a dynamic aafter_agent has just emptied a cache that a load had filled
CacheClearingWitness ==
    /\ is_dynamic
    /\ ret.op = "aafter_agent"
    /\ ret.had # {}
    /\ loadCalls >= 1
    /\ ~tools_loaded

\* C2: with loaded true, abefore_agent returns normally without invoking the
\* loader and leaves loaded and the cache as they are, whatever context it is
\* given; a second call after a successful one adds no loader invocation.
IdempotentLoading ==
    [][tools_loaded => \A r \in Runtimes : BeforeEnter(r) =>
          /\ loadCalls' = loadCalls
          /\ calls' = calls
          /\ tools_loaded'
          /\ tools_cache' = tools_cache
          /\ ret'.op = "abefore_agent" /\ ret'.kind = "ok"]_vars

\* a dynamic middleware loaded by one loader call has answered a further
\* abefore_agent, given a context without the credentials, by returning
IdempotentLoadingWitness ==
    /\ is_dynamic
    /\ tools_loaded
    /\ loadCalls = 1
    /\ ret.op = "abefore_agent" /\ ret.kind = "ok" /\ ret.msg = ""
    /\ invConn = EmptyMap

\* C3: when the invocations of a dynamic middleware do not overlap and each
\* calls abefore_agent with its own values first, a handle that get_tool
\* returns was loaded with the values of the latest abefore_agent call.
PerInvocationReauth ==
    (is_dynamic /\ ~overlapped /\ invConn # EmptyMap /\ ret.op = "get_tool" /\ ret.kind = "ok")
        => ret.tool.conn = invConn

\* C4: once a static middleware is loaded, no step changes loaded or the
\* cache, and get_tool keeps returning every cached name.
CachePermanenceLaw ==
    [][(~is_dynamic /\ phase = "live" /\ tools_loaded) =>
          /\ tools_loaded'
          /\ tools_cache' = tools_cache
          /\ \A n \in DOMAIN tools_cache : get_tool(n)'.kind = "ok"]_vars

\* a loaded static middleware has been through aafter_agent with its cache
CachePermanenceWitness ==
    /\ ~is_dynamic
    /\ tools_loaded
    /\ ret.op = "aafter_agent"
    /\ ret.had # {}
    /\ DOMAIN tools_cache = ret.had

\* C5: a placeholder-free configuration constructed while a loop runs on the
\* thread yields an instance (the constructor does not raise) that is not
\* loaded and has made no load attempt.
StaticInLoopDefers ==
    (phase # "new" /\ ~is_dynamic /\ inLoop)
        => (phase = "live" /\ ~tools_loaded /\ loadCalls = 0)

\* C6: a static middleware whose construction-time load was deferred gets its
\* load from abefore_agent: the loader is invoked with the original server
\* descriptors.
DeferredStaticLoad ==
    (phase # "new" /\ ~is_dynamic /\ inLoop)
        ~> (loadCalls >= 1 /\ loadArg = servers)

\* C7: while loaded is false get_tool fails with "not loaded" for every name,
\* and a lookup that returned a handle did so with loaded true, after a load.
OrderingGuarantee ==
    /\ ~tools_loaded => \A n \in QueryNames : NotLoadedError(get_tool(n))
    /\ (ret.op = "get_tool" /\ ret.kind = "ok") => (tools_loaded /\ loadCalls >= 1)

\* a lookup on a dynamic middleware failed while its load was still in flight
OrderingWitness ==
    /\ is_dynamic
    /\ calls # EmptyBag
    /\ ~tools_loaded
    /\ ret.op = "get_tool" /\ NotLoadedError(ret)

\* C8: on an unloaded dynamic middleware, abefore_agent given values that do
\* not cover the template variables raises a ValueError listing exactly the
\* variables not supplied, in sorted order, invokes no loader and leaves
\* loaded false and the cache empty; for a runtime object and a plain mapping.
MissingCredentials ==
    [][(is_dynamic /\ ~tools_loaded) =>
          \A r \in {x \in Runtimes : ~(template_vars \subseteq Supplied(x))} : BeforeEnter(r) =>
              /\ ret'.op = "abefore_agent" /\ ret'.kind = "ValueError"
              /\ SortedListOf(ret'.names, template_vars \ Supplied(r))
              /\ loadCalls' = loadCalls
              /\ calls' = calls
              /\ ~tools_loaded'
              /\ tools_cache' = EmptyMap]_vars

\* abefore_agent has refused values that miss one of two template variables
MissingCredentialsWitness ==
    /\ is_dynamic
    /\ Cardinality(template_vars) = 2
    /\ ret.op = "abefore_agent" /\ ret.kind = "ValueError" /\ ret.msg = "missing"
    /\ Len(ret.names) = 1
    /\ ~tools_loaded

\* C9: loaded is true only with a cache that holds the whole tool list of one
\* successful load; a load that fails or is cancelled leaves loaded and the
\* cache as they were (false and empty when nothing ran in between), and a
\* constructor that raises leaves nothing loaded.
AllOrNothing ==
    /\ [](tools_loaded =>
            /\ lastTools # {}
            /\ \A t \in lastTools : t.name \in DOMAIN tools_cache /\ tools_cache[t.name] = t
            /\ \A n \in DOMAIN tools_cache : tools_cache[n] \in lastTools /\ tools_cache[n].name = n)
    /\ [][/\ \A arg \in Awaiting :
                (BeforeCancel(arg) \/ \E out \in FailedOutcomes(arg) : BeforeResume(arg, out))
                    => /\ UNCHANGED <<tools_loaded, tools_cache>>
                       /\ ~overlapped => (~tools_loaded' /\ tools_cache' = EmptyMap)
          /\ (Construct /\ phase' = "raised") => (~tools_loaded' /\ tools_cache' = EmptyMap)]_vars

\* a load was cancelled in flight and nothing is loaded
AllOrNothingWitness ==
    /\ ret.op = "abefore_agent" /\ ret.kind = "CancelledError"
    /\ ~overlapped
    /\ ~tools_loaded
    /\ tools_cache = EmptyMap

\* C10: a loader failure inside a dynamic abefore_agent makes the hook raise
\* and leaves loaded and the cache as they were (false and empty when nothing
\* ran in between); an abefore_agent on the unloaded middleware then invokes
\* the loader anew, with the servers resolved from the values of that call.
LoadFailureFatal ==
    [][/\ \A arg \in Awaiting : \A out \in FailedOutcomes(arg) :
              BeforeResume(arg, out) =>
                  /\ ret'.op = "abefore_agent"
                  /\ ret'.kind \in {"RuntimeError", "ValueError"}
                  /\ UNCHANGED <<tools_loaded, tools_cache>>
                  /\ ~overlapped => (~tools_loaded' /\ tools_cache' = EmptyMap)
       /\ (is_dynamic /\ ~tools_loaded) =>
              \A r \in {x \in Runtimes : template_vars \subseteq Supplied(x)} : BeforeEnter(r) =>
                  /\ loadCalls' = loadCalls + 1
                  /\ loadArg' = substitute_templates(servers, r.conf)
                  /\ calls' = calls (+) SetToBag({loadArg'})]_vars

\* after a load failure a new load is in flight, the second one
LoadFailureWitness ==
    /\ is_dynamic
    /\ ret.op = "abefore_agent" /\ ret.kind = "RuntimeError" /\ ret.msg = "load"
    /\ ~overlapped
    /\ calls # EmptyBag
    /\ loadCalls = 2
    /\ ~tools_loaded

\* some string of the raw server configuration carries a {{VAR}} placeholder
HasPlaceholder(srv) ==
    \E x \in DOMAIN srv : \E s \in {srv[x].url, srv[x].auth} :
        \E i \in DOMAIN s : s[i].k = "var"

\* C11: a constructed middleware is dynamic exactly when the variables
\* extracted from its raw servers are not empty, which is when any one server
\* carries a placeholder; no step taken on the instance changes the mode or
\* the template-variable set.
ModeDeterminism ==
    /\ [](phase = "live" =>
            /\ template_vars = extract_template_vars(servers)
            /\ is_dynamic <=> (extract_template_vars(servers) # {})
            /\ is_dynamic <=> HasPlaceholder(servers))
    /\ [][phase = "live" => UNCHANGED <<is_dynamic, template_vars>>]_vars

\* a middleware with one static and one templated server is dynamic and has
\* been through a load and an aafter_agent
ModeDeterminismWitness ==
    /\ servers = MixedServers
    /\ is_dynamic
    /\ template_vars = {1}
    /\ ret.op = "aafter_agent"
    /\ ret.had # {}

\* C12: constructing a configuration with a placeholder returns an instance
\* (it does not raise), invokes no loader and leaves loaded false and the
\* cache empty.
DynamicConstructionLoadsNothing ==
    [][(Construct /\ HasPlaceholder(servers)) =>
          /\ phase' = "live"
          /\ ret'.op = "__init__" /\ ret'.kind = "ok"
          /\ loadCalls' = 0
          /\ calls' = EmptyBag
          /\ ~tools_loaded'
          /\ tools_cache' = EmptyMap]_vars

\* the constructor of a dynamic middleware has just returned
DynamicConstructionWitness ==
    /\ phase = "live"
    /\ is_dynamic
    /\ ret.op = "__init__" /\ ret.kind = "ok"
    /\ loadCalls = 0
    /\ ~tools_loaded

\* C13: when the load of a static configuration constructed without a running
\* loop succeeds, the constructor has made the one loader call with the servers
\* as they are, returns an instance with loaded true and every tool of the load
\* cached, and get_tool returns each of them at once.
StaticConstructionSuccess ==
    [][\A out \in LoaderOutcomes(servers) \ FailedOutcomes(servers) :
          (Construct /\ ~HasPlaceholder(servers) /\ ~inLoop /\ LoadStatic(out)) =>
              /\ phase' = "live"
              /\ ret'.op = "__init__" /\ ret'.kind = "ok"
              /\ loadCalls' = 1 /\ loadArg' = servers /\ calls' = EmptyBag
              /\ tools_loaded'
              /\ DOMAIN tools_cache' = {out.tools[i].name : i \in DOMAIN out.tools}
              /\ \A i \in DOMAIN out.tools :
                    /\ get_tool(out.tools[i].name)'.kind = "ok"
                    /\ get_tool(out.tools[i].name)'.tool = out.tools[i]]_vars

\* the constructor of a static middleware has just returned with two tools
StaticConstructionSuccessWitness ==
    /\ phase = "live"
    /\ ~is_dynamic
    /\ ~inLoop
    /\ ret.op = "__init__" /\ ret.kind = "ok"
    /\ tools_loaded
    /\ DOMAIN tools_cache = ToolNames

\* C14: when the load of a static configuration constructed without a running
\* loop fails (an error of the loader or an empty list), the constructor raises
\* a RuntimeError, nothing is loaded, and no hook or lookup ever runs on the
\* instance: the failure is not left for an invocation.
StaticConstructionFailure ==
    /\ [][\A out \in FailedOutcomes(servers) :
            (Construct /\ ~HasPlaceholder(servers) /\ ~inLoop /\ LoadStatic(out)) =>
                /\ phase' = "raised"
                /\ ret'.op = "__init__" /\ ret'.kind = "RuntimeError"
                /\ ~tools_loaded'
                /\ tools_cache' = EmptyMap]_vars
    /\ [][phase = "raised" => UNCHANGED vars]_vars

\* the constructor has raised after its one loader call
StaticConstructionFailureWitness ==
    /\ phase = "raised"
    /\ ~is_dynamic
    /\ ~inLoop
    /\ loadCalls = 1
    /\ ret.op = "__init__" /\ ret.kind = "RuntimeError"

\* C15: get_tool raises the RuntimeError naming the mode whenever loaded is
\* false, whatever the name; with loaded true it raises the ValueError listing
\* the cached names for a name that is not cached and returns the cached handle
\* otherwise; it changes neither loaded nor the cache.
GetToolOutcome ==
    [][\A n \in QueryNames : GetTool(n) =>
          /\ UNCHANGED <<tools_loaded, tools_cache>>
          /\ ret'.op = "get_tool"
          /\ IF ~tools_loaded
             THEN /\ ret'.kind = "RuntimeError"
                  /\ ret'.msg = (IF is_dynamic THEN "dynamic" ELSE "static")
                  /\ ret'.tool = NoHandle
             ELSE IF n \notin DOMAIN tools_cache
             THEN /\ ret'.kind = "ValueError"
                  /\ ret'.msg = "not found"
                  /\ ret'.had = DOMAIN tools_cache
                  /\ ret'.tool = NoHandle
             ELSE /\ ret'.kind = "ok"
                  /\ ret'.tool = tools_cache[n]]_vars

\* a lookup of a name that is not cached has listed the one name that is
GetToolOutcomeWitness ==
    /\ tools_loaded
    /\ ret.op = "get_tool" /\ ret.kind = "ValueError"
    /\ Cardinality(ret.had) = 1
    /\ ret.had = DOMAIN tools_cache

\* C16: making a wrapper for a tool name calls nothing of the middleware and
\* succeeds, also on a middleware that has nothing loaded.
ProxyConstructionLazy ==
    ret.op \in {"create_tool_wrapper", "create_lazy_tool_wrapper"}
        => (ret.kind = "ok" /\ ret.steps = <<>>)

\* C17: create_deep_agent on a configuration with placeholders returns a
\* compiled agent with one wrapper per requested tool, without a load.
AssemblyBeforeCredentials ==
    (is_dynamic /\ ret.op = "create_deep_agent")
        => /\ ret.kind = "ok"
           /\ phase = "live"
           /\ DOMAIN wrappers = Requested
           /\ loadCalls = 0

ProxiesHoldNoHandle ==
    ret.op = "wrapper" =>
        /\ "invoke" \in Range(ret.steps) =>
              /\ tools_loaded
              /\ ret.tool \in lastTools
              /\ ret.tool.name \in DOMAIN tools_cache
              /\ tools_cache[ret.tool.name] = ret.tool
        /\ ~tools_loaded =>
              /\ ret.kind \in {"ValueError", "RuntimeError"}
              /\ ret.tool = NoHandle
              /\ "invoke" \notin Range(ret.steps)

\* a wrapper made before the first load of a dynamic middleware has invoked a
\* tool of the second load, the one made with the latest caller's values
ProxiesHoldNoHandleWitness ==
    /\ is_dynamic
    /\ ~overlapped
    /\ "t1" \in DOMAIN wrappers
    /\ wrappers["t1"].early
    /\ loadCalls = 2
    /\ ret.op = "wrapper" /\ ret.kind = "ok"
    /\ ret.tool.conn = loadArg
    /\ invConn = loadArg

\* C20: a call of the loader that carries a token and gets a catalog holding
\* none of the names requested across the whole filter raises the ValueError
\* "No tools found matching filter", which names the catalog's tools and the
\* requested names, and returns no tools.
NoToolsMatched ==
    (/\ loader.pc = "done"
     /\ loader.user_token \notin BlankTokens
     /\ loader.remote.kind = "catalog"
     /\ Range(loader.remote.names) \cap requested_tools(loader.tool_filter) = {})
        => /\ loader.result.kind = "ValueError"
           /\ loader.result.msg = "No tools found matching filter"
           /\ loader.result.available = loader.remote.names
           /\ loader.result.requested = requested_tools(loader.tool_filter)
           /\ loader.result.tools = <<>>

\* the loader was asked for a tool the catalog does not have and has raised,
\* naming the tool asked for and the tool there is
NoToolsMatchedWitness ==
    /\ loader.pc = "done"
    /\ loader.remote.kind = "catalog"
    /\ loader.remote.names = <<"t1">>
    /\ requested_tools(loader.tool_filter) = {"zz"}
    /\ loader.result.kind = "ValueError"
    /\ loader.result.available = <<"t1">>
    /\ loader.result.requested = {"zz"}

\* the names a filter asks for, all its servers taken together
RequestedAcross(filter) ==
    UNION {{filter[x][i] : i \in DOMAIN filter[x]} : x \in DOMAIN filter}

\* the positions of a catalog whose tool is among the names
Matching(names, S) == {i \in DOMAIN names : names[i] \in S}

\* C21: a call of the loader that carries a token and gets a catalog holding
\* some but not all of the names requested across the filter does not fail: it
\* returns the catalog's tools whose name is requested, each of them once and
\* in the catalog's order, and no other tool.
PartialAvailability ==
    (/\ loader.pc = "done"
     /\ loader.user_token \notin BlankTokens
     /\ loader.remote.kind = "catalog"
     /\ Range(loader.remote.names) \cap RequestedAcross(loader.tool_filter) # {}
     /\ RequestedAcross(loader.tool_filter) \ Range(loader.remote.names) # {})
        => LET names == loader.remote.names
               kept == Matching(names, RequestedAcross(loader.tool_filter))
               got == loader.result.tools
           IN  /\ loader.result.kind = "tools"
               /\ Len(got) = Cardinality(kept)
               /\ \A j \in DOMAIN got :
                     /\ got[j].name \in RequestedAcross(loader.tool_filter)
                     /\ \E i \in kept :
                           /\ names[i] = got[j].name
                           /\ Cardinality({k \in kept : k < i}) = j - 1

\* asked for t1 and t2 of a catalog that has t1 and another tool, the loader
\* has returned t1 alone
PartialAvailabilityWitness ==
    /\ loader.pc = "done"
    /\ loader.remote.kind = "catalog"
    /\ loader.remote.names = <<"t1", "zz">>
    /\ RequestedAcross(loader.tool_filter) = {"t1", "t2"}
    /\ loader.result.kind = "tools"
    /\ Len(loader.result.tools) = 1
    /\ loader.result.tools[1].name = "t1"

\* C22: a call of the loader that carries a token and whose catalog fetch
\* fails in the transport raises the RuntimeError "MCP tool loading failed",
\* whatever the exception the transport raised: the failure is neither
\* swallowed nor turned into an empty result; and a catalog with none of the
\* requested names raises its own ValueError, never that RuntimeError.
FailureKinds ==
    (/\ loader.pc = "done"
     /\ loader.user_token \notin BlankTokens)
        => /\ loader.remote.kind \in {"error", "value_error"}
                => /\ loader.result.kind = "RuntimeError"
                   /\ loader.result.msg = "MCP tool loading failed"
           /\ (/\ loader.remote.kind = "catalog"
               /\ Range(loader.remote.names) \cap RequestedAcross(loader.tool_filter) = {})
                => /\ loader.result.kind = "ValueError"
                   /\ loader.result.msg = "No tools found matching filter"
           /\ loader.result.kind = "tools" => loader.result.tools # <<>>

\* C23: the loader adds no credential of its own: the headers it hands to the
\* transport for a server are the headers of that server's descriptor, with no
\* Authorization header added, and a call succeeds or fails the same whether
\* or not a user token comes with it.
LoaderInjectsNothing ==
    loader.pc = "done"
        => /\ \A i \in DOMAIN loader.result.tools : \A x \in DOMAIN loader.servers :
                 loader.result.tools[i].conn[x].headers = HeadersOf(loader.servers, x)
           /\ loader.result.msg # "user_token is required"

\* C24: every call of the loader comes to an end: it returns or it raises,
\* also when the servers never answer.
LoadTerminates == (loader.pc = "called") ~> (loader.pc = "done")

\* C25: the loader is invoked one call at a time and only where a hook call
\* or a static construction begins its load: each step adds at most one
\* invocation, an invocation is added only by the construction or by a call of
\* abefore_agent that suspends in it, and the step that ends a call, with
\* tools or with a failure, adds none.
NoInternalRetry ==
    [][/\ loadCalls' \in {loadCalls, loadCalls + 1}
       /\ loadCalls' = loadCalls + 1
            => \/ phase = "new" /\ phase' # "new" /\ calls' = calls
               \/ phase' = phase /\ BagCardinality(calls') = BagCardinality(calls) + 1
       /\ BagCardinality(calls') < BagCardinality(calls) => loadCalls' = loadCalls]_vars

\* a dynamic middleware's only load has failed: the hook has raised after one
\* invocation of the loader
NoInternalRetryWitness ==
    /\ is_dynamic
    /\ ret.op = "abefore_agent"
    /\ ret.kind = "RuntimeError"
    /\ ret.msg = "load"
    /\ calls = EmptyBag
    /\ loadCalls = 1

\* a descriptor map holds a credential value in one of its strings
HoldsCredential(srv) ==
    \E x \in DOMAIN srv : \E str \in {srv[x].url, srv[x].auth} :
        \E i \in DOMAIN str : str[i].k = "lit" /\ str[i].s \in CredValues

StrayBrace(s) ==
    \E i \in DOMAIN s :
        /\ s[i].k \in {"open", "close"}
        /\ ~(\E j \in DOMAIN s : PlaceholderAt(s, j) /\ i \in {j, j + 2})

RECURSIVE HasStrayBrace(_)
HasStrayBrace(node) ==
    IF node.t = "str" THEN StrayBrace(node.s)
    ELSE \E i \in DOMAIN node.kids : HasStrayBrace(node.kids[i])

\* a string holds an occurrence of the pattern
RECURSIVE HasOccurrence(_)
HasOccurrence(node) ==
    IF node.t = "str" THEN \E i \in DOMAIN node.s : PlaceholderAt(node.s, i)
    ELSE \E i \in DOMAIN node.kids : HasOccurrence(node.kids[i])

\* the values hold no placeholder / no brace at all
PlaceholderFree(values) ==
    \A v \in DOMAIN values : \A i \in DOMAIN values[v] : ~PlaceholderAt(values[v], i)
BraceFree(values) ==
    \A v \in DOMAIN values : \A i \in DOMAIN values[v] : values[v][i].k \notin {"open", "close"}

RECURSIVE Mentions(_, _)
Mentions(node, v) ==
    IF node.t = "str"
    THEN \E i \in DOMAIN node.s : PlaceholderAt(node.s, i) /\ node.s[i + 1].n = v
    ELSE \E i \in DOMAIN node.kids : Mentions(node.kids[i], v)

\* the variables the structure mentions and the values do not cover
Uncovered(node, values) == {v \in Keys : Mentions(node, v) /\ v \notin DOMAIN values}

\* C28: substitute fails exactly when a placeholder of the structure has no
\* entry in the values; the failure then lists the uncovered variables, each
\* once and in ascending order, and nothing else; entries no placeholder uses
\* make no difference.
MissingVariables ==
    (unit.fn = "substitute" /\ unit.pc = "done")
        => LET miss == Uncovered(unit.given, unit.values)
               named == unit.result.missing
           IN  /\ unit.result.ok <=> miss = {}
               /\ Range(named) = miss
               /\ \A i, j \in DOMAIN named : i < j => named[i] < named[j]

\* two variables were used and no value was given: the failure names both,
\* in order
MissingVariablesWitness ==
    /\ unit.fn = "substitute"
    /\ unit.pc = "done"
    /\ extractVariables(unit.given) = {1, 2}
    /\ unit.values = EmptyMap
    /\ ~unit.result.ok
    /\ unit.result.missing = <<1, 2>>

Refused(f) ==
    \/ DOMAIN f = {}
    \/ \E x \in DOMAIN f :
        \/ f[x] = <<>>
        \/ \E i \in DOMAIN f[x] :
            \/ f[x][i] = <<>>
            \/ \E c \in DOMAIN f[x][i] : f[x][i][c] \notin Alnum \cup {"_", "-"}
        \/ \E i, j \in DOMAIN f[x] : i # j /\ f[x][i] = f[x][j]

\* C30: building the tools configuration fails for the filters described
\* above and for no other; when it succeeds the filter comes back unchanged.
ToolFilterValidation ==
    (unit.fn = "validate_tools_structure" /\ unit.pc = "done")
        => /\ unit.result.ok <=> ~Refused(unit.given)
           /\ unit.result.ok => unit.result.value = unit.given

\* the url of a raw server dictionary is missing or is no absolute URI
BadUrl(raw) == ~raw.has_url \/ raw.url.scheme = "" \/ raw.url.host = ""

ServersAndFilterTogether ==
    (unit.fn = "create_deep_agent" /\ unit.pc = "done")
        => LET s == DOMAIN unit.given.mcp_servers
               t == DOMAIN unit.given.mcp_tools
           IN  ((s = {}) # (t = {}) \/ (s # {} /\ t # {} /\ s # t))
                  => /\ unit.result.kind = "ValueError"
                     /\ ~unit.result.constructed
                     /\ unit.result.loads = 0


\* C35: when servers and filter are given and create_deep_agent returns, the
\* middleware list it hands on holds the tool-loading middleware first and
\* the caller's middleware after it in their order, and the tool list holds
\* the caller's tools followed by exactly one wrapper per name of the filter,
\* in the filter's order.
AssemblyOrder ==
    (/\ unit.fn = "create_deep_agent"
     /\ unit.pc = "done"
     /\ DOMAIN unit.given.mcp_servers # {}
     /\ DOMAIN unit.given.mcp_tools # {}
     /\ unit.result.kind = "ok")
        => LET a == unit.given
               r == unit.result
               names == FilterNames(a.mcp_tools)
               own == Len(a.tools)
           IN  /\ Len(r.middleware_list) = Len(a.middleware) + 1
               /\ r.middleware_list[1] = "McpToolsLoader"
               /\ \A i \in DOMAIN a.middleware : r.middleware_list[i + 1] = a.middleware[i]
               /\ Len(r.tools_list) = own + Len(names)
               /\ \A i \in DOMAIN a.tools : r.tools_list[i] = a.tools[i]
               /\ \A i \in DOMAIN names :
                    /\ r.tools_list[own + i].kind = "wrapper"
                    /\ r.tools_list[own + i].name = names[i]

\* an agent made from two servers, with a tool and two middleware of the caller
AssemblyOrderWitness ==
    /\ unit.fn = "create_deep_agent"
    /\ unit.pc = "done"
    /\ unit.result.kind = "ok"
    /\ DOMAIN unit.given.mcp_tools = {"s1", "s2"}
    /\ Len(unit.given.tools) = 1
    /\ Len(unit.given.middleware) = 2
    /\ Len(unit.result.tools_list) = 4


\* C33: after abefore_agent of the loop detection middleware the tool-call
\* history is empty, the intervention count is 0 and the stopped flag is
\* down, whatever the three held from the execution before.
LoopResetPerExecution ==
    (unit.fn = "LoopDetectionMiddleware" /\ unit.op = "abefore_agent")
        => /\ unit._tool_history = <<>>
           /\ unit._intervention_count = 0
           /\ ~unit._stopped

\* an execution starts on a middleware that the last one left stopped, with
\* a history and interventions
LoopResetPerExecutionWitness ==
    /\ unit.fn = "LoopDetectionMiddleware"
    /\ unit.op = "abefore_agent"
    /\ unit.had._stopped
    /\ unit.had._intervention_count > 0
    /\ unit.had._tool_history # <<>>

\* the last n entries of h are all the call c
EndsWith(h, c, n) ==
    /\ Len(h) >= n
    /\ \A i \in (Len(h) - n + 1)..Len(h) : h[i] = c

Occurrences(h, c) == Cardinality({i \in DOMAIN h : h[i] = c})

EmptyLoad(out) == out.kind = "tools" /\ out.tools = <<>>

\* C36: in every reachable state of a middleware the loaded flag is up
\* exactly when the cache holds something; a load that comes back with zero
\* tools makes the constructor or the hook raise and changes neither.
LoadedCacheAgree ==
    /\ [](tools_loaded <=> tools_cache # EmptyMap)
    /\ [][/\ \A out \in LoaderOutcomes(servers) :
                (Construct /\ LoadStatic(out) /\ EmptyLoad(out))
                    => /\ phase' = "raised"
                       /\ ret'.kind = "RuntimeError"
                       /\ ~tools_loaded'
          /\ \A arg \in Awaiting : \A out \in LoaderOutcomes(arg) :
                (BeforeResume(arg, out) /\ EmptyLoad(out))
                    => /\ ret'.kind = "RuntimeError"
                       /\ UNCHANGED <<tools_loaded, tools_cache>>]_vars

\* the second load of a dynamic middleware made the hook raise, and nothing
\* is held
LoadedCacheAgreeWitness ==
    /\ is_dynamic
    /\ ret.op = "abefore_agent"
    /\ ret.kind = "RuntimeError"
    /\ ret.msg = "load"
    /\ loadCalls = 2
    /\ ~tools_loaded
    /\ tools_cache = EmptyMap


\* C37 as stated: a beforeExecution that starts on a dynamic middleware while
\* an earlier one of the same epoch is suspended in the loader does not
\* invoke the loader again, and an afterExecution that runs while a call is
\* suspended does not leave loaded up over a cache.
OverlapLoadsOnce ==
    [][/\ (is_dynamic /\ Awaiting # {} /\ ~overlapped)
            => \A r \in Runtimes : BeforeEnter(r) => loadCalls' = loadCalls
       /\ (is_dynamic /\ Awaiting # {} /\ AfterAgent)
            => ~(tools_loaded' /\ tools_cache' # EmptyMap)]_vars

\* C37: a beforeExecution that starts on a dynamic middleware while another
\* is suspended in the loader, with nothing loaded, invokes the loader again
\* with its own call's values; an afterExecution that runs while a call is
\* suspended leaves loaded down and the cache empty; and every load that
\* completes with tools puts loaded up over a cache bound to its own call's
\* values.
OverlapLoadsPerCall ==
    [][/\ (is_dynamic /\ Awaiting # {} /\ ~tools_loaded)
            => \A r \in Runtimes : (Extracted(r).ok /\ BeforeEnter(r))
                  => /\ loadCalls' = loadCalls + 1
                     /\ loadArg' = Resolved(r)
                     /\ BagIn(Resolved(r), calls')
                     /\ BagCardinality(calls') = BagCardinality(calls) + 1
       /\ (is_dynamic /\ Awaiting # {} /\ AfterAgent)
            => (~tools_loaded' /\ tools_cache' = EmptyMap)
       /\ overlapped
            => \A arg \in Awaiting : \A out \in LoaderOutcomes(arg) \ FailedOutcomes(arg) :
                  BeforeResume(arg, out)
                     => /\ tools_loaded'
                        /\ \A n \in DOMAIN tools_cache' : tools_cache'[n].conn = arg]_vars

\* two calls of one epoch are suspended in the loader, each with its own load
OverlapLoadsPerCallWitness ==
    /\ is_dynamic
    /\ BagCardinality(calls) = 2
    /\ Cardinality(Awaiting) = 2
    /\ loadCalls = 2
    /\ ~tools_loaded


\* the plain mapping that carries what runtime object r carries
AsMapping(r) == [r EXCEPT !.form = "dict"]

\* C38: a dynamic abefore_agent given a runtime object and one given a plain
\* mapping with the same configurable values come out alike: both start the
\* same load, or both raise ValueError naming the same variables and leave
\* the loaded flag, the cache and the loader alone.
ContextFormsAgree ==
    [][(is_dynamic /\ ~tools_loaded)
          => \A r \in Runtimes : (r.form = "obj" /\ BeforeEnter(r))
                => LET d == AsMapping(r)
                   IN  /\ Extracted(d).ok = Extracted(r).ok
                       /\ Extracted(d).names = Extracted(r).names
                       /\ Resolved(d) = Resolved(r)
                       /\ IF Extracted(d).ok
                          THEN /\ loadCalls' = loadCalls + 1
                               /\ loadArg' = Resolved(d)
                               /\ BagIn(Resolved(d), calls')
                          ELSE /\ ret'.kind = "ValueError"
                               /\ ret'.names = Extracted(d).names
                               /\ UNCHANGED <<loadCalls, calls>>
                       /\ UNCHANGED <<tools_loaded, tools_cache>>]_vars

\* the hook raised for a context that supplies one of two variables: the
\* error names the other, and nothing is loaded
ContextFormsAgreeWitness ==
    /\ is_dynamic
    /\ Cardinality(template_vars) = 2
    /\ ret.op = "abefore_agent"
    /\ ret.kind = "ValueError"
    /\ ret.msg = "missing"
    /\ Len(ret.names) = 1
    /\ ~tools_loaded
    /\ tools_cache = EmptyMap


\* C39: a call that creates a sandbox polls at most 90 times; the first poll
\* that succeeds ends the call with a backend and no deletion; a call that
\* ends without a successful poll has made all 90, has called delete on the
\* sandbox it created and raises the start timeout; and a call that reuses a
\* sandbox never calls delete.
SandboxReadiness ==
    unit.fn = "create_sandbox_backend"
        => /\ unit.polls <= PollLimit
           /\ unit.ready
                => /\ unit.pc = "done"
                   /\ unit.result.kind = "ok"
                   /\ unit.deletes = 0
           /\ (unit.pc = "done" /\ unit.created /\ ~unit.ready)
                => /\ unit.polls = PollLimit
                   /\ unit.deletes = 1
                   /\ unit.result = [kind |-> "RuntimeError", msg |-> "failed to start"]
           /\ unit.deletes > 0 => unit.created
           /\ SandboxMode(unit.config) = "reuse" => (~unit.created /\ unit.deletes = 0)
           /\ (unit.pc = "done" /\ unit.result.kind = "ok") => unit.ready

\* a sandbox created from a snapshot never answered and was deleted
SandboxReadinessWitness ==
    /\ unit.fn = "create_sandbox_backend"
    /\ unit.pc = "done"
    /\ SandboxMode(unit.config) = "snapshot"
    /\ unit.created
    /\ unit.polls = PollLimit
    /\ unit.deletes = 1
    /\ unit.result.kind = "RuntimeError"

====
